---- MODULE Spec2Model ----
(***************************************************************************)
(* A model of the header-only HotLoader (src/hot_loader.h): the registry   *)
(* of observers (HotLoadTask) per file, the reverse index from inotify     *)
(* watch descriptors to files, the worker thread (work_loop) and the       *)
(* lifecycle calls init / run / stop, together with the part of the kernel *)
(* they talk to: the inotify watch table, the inotify event queue and the  *)
(* edge-triggered epoll readiness of the inotify descriptor.               *)
(***************************************************************************)
EXTENDS Integers, Sequences, FiniteSets, TLC

(* ---------------------------------------------------------------------- *)
(* Bounds and the universe of objects                                      *)
(* ---------------------------------------------------------------------- *)

\* Watch descriptors the kernel hands out are 1..MaxWd (inotify never reuses one).
MaxWd == 3

\* The observer objects of the host program; each one is constructed once.
Tasks == {"A", "B", "C"}

\* All observer objects: the three above and a third observer of file F, which
\* only a host that cares about the order of its observers constructs.
Observers == Tasks \cup {"D"}

\* A null HotLoadTask pointer.
NullTask == "nullptr"

\* The files the observers were constructed on.
Files == {"F", "G"}

\* HotLoadTask::watch_file(): the canonical path fixed at construction.
watch_file(t) == IF t = "C" THEN "G" ELSE "F"

OWN_TASK == "OWN_TASK"
DOESNT_OWN_TASK == "DOESNT_OWN_TASK"
OwnerShip == {OWN_TASK, DOESNT_OWN_TASK}

\* The ownerships with which the hosts that run the worker register each
\* observer: A with either, B and C with OWN_TASK (as src/example.cpp does).
Ownerships(t) == IF t = "A" THEN OwnerShip ELSE {OWN_TASK}

\* The files the host deletes and creates again while they are watched.
Replaced == {"F"}

\* The threads of the host that call run().
Callers == {"t1", "t2"}

IN_CLOSE_WRITE == "IN_CLOSE_WRITE"
IN_IGNORED == "IN_IGNORED"

VARIABLES
    initialized,        \* _initialized
    running,            \* _running
    inotify_fd,         \* _inotify_fd: "closed" or "open"
    epoll_fd,           \* _epoll_fd: "closed" or "open"
    tasks,              \* _tasks: file -> sequence of TaskInfo [task, ownership]
    watch_descriptors,  \* _watch_descriptors: wd -> file
    task_wd,            \* HotLoadTask::_watch_descriptor of every observer
    destroyed,          \* how many times each observer was deleted
    joinable,           \* _worker_thread.joinable()
    mutex,              \* _mutex: "free" or "worker" (callers lock and unlock in one step)
    pc,                 \* position of the worker thread in work_loop
    event_masks,        \* work_loop's local event_masks: wd -> set of mask bits
    stop_pc,            \* position of the caller thread that is inside stop()
    kwatch,             \* kernel: live inotify watches, wd -> file
    next_wd,            \* kernel: the next watch descriptor to hand out
    queue,              \* kernel: the events queued on the inotify descriptor
    epoll_ready,        \* kernel: an edge on the inotify descriptor is pending
    exists,             \* file system: which files exist
    proc,               \* the host process: "alive", "aborted" or "exited"
    run_pc,             \* position of each caller thread that is inside run()
    unregistered,       \* history: observers unregistered and not registered again
    stop_returned,      \* history: stop() was the last call the host made, and it returned
    stop_again,         \* history: that stop() began right after another stop() had returned
    last_init           \* history: the last call of the host was an init() that "failed",
                        \* or one made "again" on an initialized instance; else "none"

vars == <<initialized, running, inotify_fd, epoll_fd, tasks, watch_descriptors,
          task_wd, destroyed, joinable, mutex, pc, event_masks, stop_pc, kwatch,
          next_wd, queue, epoll_ready, exists, proc, run_pc, unregistered,
          stop_returned, stop_again, last_init>>

(* ---------------------------------------------------------------------- *)
(* The part of the state one registry operation works on                   *)
(* ---------------------------------------------------------------------- *)

\* The registry, the observers and the kernel as one record; ret is the value
\* the last call returned and tr the effects so far.
Cur ==
    [ts |-> tasks, rev |-> watch_descriptors, wd |-> task_wd, dead |-> destroyed,
     kw |-> kwatch, nwd |-> next_wd, q |-> queue, rdy |-> epoll_ready,
     tr |-> <<>>, ret |-> 0]

Ev(e, t, w) == [e |-> e, t |-> t, wd |-> w]

Restrict(f, S) == [x \in S |-> f[x]]

\* A map without keys.
EmptyMap == [x \in {} |-> ""]

TasksOf(list) == {list[i].task : i \in 1..Len(list)}

\* The observers held by a registry.
Registered(ts) == UNION {TasksOf(ts[f]) : f \in DOMAIN ts}

\* The kernel queues an event. The reader ORs the masks of all queued events
\* of one descriptor, so the queue is kept as the set of its distinct events.
Enqueue(q, w, k) == q \cup {[wd |-> w, mask |-> k]}

\* The live kernel watches on a file.
WatchesOn(kw, file) == {w \in DOMAIN kw : kw[w] = file}

\* Every order in which an unordered_map can enumerate the keys S.
Orders(S) ==
    {o \in [1..Cardinality(S) -> S] : \A x \in S : \E i \in 1..Cardinality(S) : o[i] = x}

(* ---------------------------------------------------------------------- *)
(* The kernel calls                                                        *)
(* ---------------------------------------------------------------------- *)

\* inotify_rm_watch(_inotify_fd, w): removes a live watch and queues IN_IGNORED
\* for it; fails (EINVAL, ignored by every caller) when w is no live watch.
inotify_rm_watch(m, w) ==
    IF w \in DOMAIN m.kw
    THEN [m EXCEPT !.kw = Restrict(@, DOMAIN @ \ {w}),
                   !.q = Enqueue(@, w, IN_IGNORED),
                   !.rdy = TRUE,
                   !.tr = Append(@, Ev("rm_watch", "", w)),
                   !.ret = 0]
    ELSE [m EXCEPT !.tr = Append(@, Ev("rm_watch", "", w)), !.ret = -1]

\* A kernel that would not look up the existing watch of a file: every
\* successful call hands out a new descriptor.
add_watch_without_lookup(m, file, ok) ==
    IF file \notin Files \/ ~exists[file] \/ ~ok \/ m.nwd > MaxWd
    THEN [m EXCEPT !.ret = -1, !.tr = Append(@, Ev("add_watch", file, -1))]
    ELSE [m EXCEPT !.kw = (m.nwd :> file) @@ @,
                   !.nwd = @ + 1,
                   !.ret = m.nwd,
                   !.tr = Append(@, Ev("add_watch", file, m.nwd))]

\* inotify_add_watch(_inotify_fd, file, kWatchEventMask): fails when the file does
\* not exist; returns the existing descriptor when the file is already watched;
\* otherwise hands out the next descriptor, or fails (ok = FALSE: out of watches
\* or memory).
inotify_add_watch(m, file, ok) ==
    IF file \notin Files \/ ~exists[file]
    THEN [m EXCEPT !.ret = -1, !.tr = Append(@, Ev("add_watch", file, -1))]
    ELSE IF WatchesOn(m.kw, file) # {}
    THEN LET w == CHOOSE x \in WatchesOn(m.kw, file) : TRUE
         IN  [m EXCEPT !.ret = w, !.tr = Append(@, Ev("add_watch", file, w))]
    ELSE IF ok /\ m.nwd <= MaxWd
    THEN [m EXCEPT !.kw = (m.nwd :> file) @@ @,
                   !.nwd = @ + 1,
                   !.ret = m.nwd,
                   !.tr = Append(@, Ev("add_watch", file, m.nwd))]
    ELSE [m EXCEPT !.ret = -1, !.tr = Append(@, Ev("add_watch", file, -1))]

(* ---------------------------------------------------------------------- *)
(* HotLoadTask                                                             *)
(* ---------------------------------------------------------------------- *)

\* HotLoadTask::normalize_path: the canonical path of an existing regular file,
\* the empty string otherwise.
Canonical(path) == IF path = "./F" THEN "F" ELSE path

normalize_path(path) ==
    IF Canonical(path) \in Files /\ exists[Canonical(path)] THEN Canonical(path) ELSE ""

\* task->on_reload(): the callback of the host program.
on_reload(m, t) == [m EXCEPT !.tr = Append(@, Ev("on_reload", t, m.wd[t]))]

\* task->set_watch_descriptor(w)
set_watch_descriptor(m, t, w) ==
    [m EXCEPT !.wd[t] = w, !.tr = Append(@, Ev("set_wd", t, w))]

\* task->watch_descriptor(): the field of a live object; reading a deleted
\* object is undefined, the read then yields garbage.
watch_descriptor(m, t, garbage) == IF m.dead[t] > 0 THEN garbage ELSE m.wd[t]

\* Record in the effects a read of the descriptor of an observer that was deleted.
read_wd(m, t) ==
    IF m.dead[t] > 0 THEN [m EXCEPT !.tr = Append(@, Ev("read_deleted", t, m.wd[t]))] ELSE m

\* A registry that would never delete an observer.
leak_task(m, t) == m

\* delete task
delete_task(m, t) ==
    [m EXCEPT !.dead[t] = IF @ < 2 THEN @ + 1 ELSE @,
              !.tr = Append(@, Ev("delete", t, m.wd[t]))]

\* What a read of the descriptor field of a deleted observer can yield: the
\* stale value, or any other bit pattern (which is no live descriptor and
\* therefore acts like -1 in inotify_rm_watch and in erase).
Garbage(t) == {-1, task_wd[t]}

(* ---------------------------------------------------------------------- *)
(* HotLoader: the registry operations (each runs under _mutex)             *)
(* ---------------------------------------------------------------------- *)

Ret(m, r) == [m EXCEPT !.ret = r]

\* A removal that would leave the list as it is.
KeepAll(list, i) == list

\* A removal that would empty the list.
RemoveAll(list, i) == <<>>

\* A removal that would move the last element of the list into the gap.
RemoveSwap(list, i) ==
    IF i = Len(list) THEN SubSeq(list, 1, Len(list) - 1)
    ELSE [k \in 1..(Len(list) - 1) |-> IF k = i THEN list[Len(list)] ELSE list[k]]

RemoveAt(list, i) == SubSeq(list, 1, i - 1) \o SubSeq(list, i + 1, Len(list))

\* An erase that would leave the key in the reverse index.
KeepWd(m, w) == m

\* _watch_descriptors.erase(w)
EraseWd(m, w) == [m EXCEPT !.rev = Restrict(@, DOMAIN @ \ {w})]

\* An assignment that would leave the reverse index as it is.
PutNothing(m, w, file) == m

\* _watch_descriptors[w] = file
PutWd(m, w, file) == [m EXCEPT !.rev = (w :> file) @@ @]

\* A registration that would not look for the observer in the list of its file.
register_twice(m, task, ownership, ok) ==
    IF task = NullTask THEN Ret(m, -1)
    ELSE IF ~initialized THEN Ret(m, -2)
    ELSE
      LET file == watch_file(task)
          m0 == IF file \in DOMAIN m.ts THEN m ELSE [m EXCEPT !.ts = (file :> <<>>) @@ @]
          task_list == m0.ts[file]
          m1 == IF task_list # <<>>
                THEN Ret(m0, m0.wd[task_list[1].task])
                ELSE inotify_add_watch(m0, file, ok)
          wd == m1.ret
      IN  IF task_list = <<>> /\ wd < 0 THEN Ret(m1, -4)
          ELSE LET m2 == set_watch_descriptor(m1, task, wd)
                   m3 == [m2 EXCEPT !.ts[file] =
                             Append(@, [task |-> task, ownership |-> ownership])]
               IN  Ret(PutWd(m3, wd, file), 0)

\* A registration that would not test _initialized.
register_before_init(m, task, ownership, ok) ==
    IF task = NullTask THEN Ret(m, -1)
    ELSE
      LET file == watch_file(task)
          m0 == IF file \in DOMAIN m.ts THEN m ELSE [m EXCEPT !.ts = (file :> <<>>) @@ @]
          task_list == m0.ts[file]
      IN  IF task \in TasksOf(task_list) THEN Ret(m0, -3)
          ELSE
            LET m1 == IF task_list # <<>>
                      THEN Ret(m0, m0.wd[task_list[1].task])
                      ELSE inotify_add_watch(m0, file, ok)
                wd == m1.ret
            IN  IF task_list = <<>> /\ wd < 0 THEN Ret(m1, -4)
                ELSE LET m2 == set_watch_descriptor(m1, task, wd)
                         m3 == [m2 EXCEPT !.ts[file] =
                                   Append(@, [task |-> task, ownership |-> ownership])]
                     IN  Ret(PutWd(m3, wd, file), 0)

\* register_task(task, ownership); ok: whether the kernel can create a new watch.
register_task(m, task, ownership, ok) ==
    IF task = NullTask THEN Ret(m, -1)
    ELSE IF ~initialized THEN Ret(m, -2)
    ELSE
      LET file == watch_file(task)
          \* auto& task_list = _tasks[file]: creates the entry when there is none
          m0 == IF file \in DOMAIN m.ts THEN m ELSE [m EXCEPT !.ts = (file :> <<>>) @@ @]
          task_list == m0.ts[file]
      IN  IF task \in TasksOf(task_list) THEN Ret(m0, -3)
          ELSE
            LET m1 == IF task_list # <<>>
                      THEN Ret(m0, m0.wd[task_list[1].task])
                      ELSE inotify_add_watch(m0, file, ok)
                wd == m1.ret
            IN  IF task_list = <<>> /\ wd < 0 THEN Ret(m1, -4)
                ELSE
                  LET m2 == set_watch_descriptor(m1, task, wd)
                      m3 == [m2 EXCEPT !.ts[file] =
                                Append(@, [task |-> task, ownership |-> ownership])]
                  IN  Ret(PutWd(m3, wd, file), 0)

\* An unregistration that would take the first observer of the file when the
\* observer it was given is not in the list.
unregister_first(m, task, g) ==
    IF task = NullTask THEN Ret(m, -1)
    ELSE IF ~initialized THEN Ret(m, -2)
    ELSE
      LET file == watch_file(task) IN
      IF file \notin DOMAIN m.ts \/ m.ts[file] = <<>> THEN Ret(m, -4)
      ELSE
        LET task_list == m.ts[file]
            found == {i \in 1..Len(task_list) : task_list[i].task = task}
            i  == IF found = {} THEN 1 ELSE CHOOSE x \in found : TRUE
            m1 == IF task_list[i].ownership = OWN_TASK
                  THEN delete_task(m, task_list[i].task) ELSE m
            m2 == [m1 EXCEPT !.ts[file] = RemoveAt(task_list, i)]
        IN  IF m2.ts[file] # <<>> THEN Ret(m2, 0)
            ELSE Ret([m2 EXCEPT !.ts = Restrict(@, DOMAIN @ \ {file})], 0)

\* unregister_task(HotLoadTask* task); g: what the three reads of
\* task->watch_descriptor() yield if the observer was deleted before them.
unregister_task(m, task, g) ==
    IF task = NullTask THEN Ret(m, -1)
    ELSE IF ~initialized THEN Ret(m, -2)
    ELSE
      LET file == watch_file(task) IN
      IF file \notin DOMAIN m.ts \/ m.ts[file] = <<>> THEN Ret(m, -4)
      ELSE
        LET task_list == m.ts[file]
            found == {i \in 1..Len(task_list) : task_list[i].task = task}
        IN  IF found = {} THEN Ret(m, -4)
            ELSE
              LET i  == CHOOSE x \in found : TRUE
                  m1 == IF task_list[i].ownership = OWN_TASK THEN delete_task(m, task) ELSE m
                  m2 == [m1 EXCEPT !.ts[file] = RemoveAt(task_list, i)]
              IN  IF m2.ts[file] # <<>> THEN Ret(m2, 0)
                  ELSE
                    LET m3 == read_wd(m2, task)
                        m4 == IF watch_descriptor(m3, task, g[1]) >= 0
                              THEN EraseWd(inotify_rm_watch(m3, watch_descriptor(m3, task, g[2])),
                                           watch_descriptor(m3, task, g[3]))
                              ELSE m3
                    IN  Ret([m4 EXCEPT !.ts = Restrict(@, DOMAIN @ \ {file})], 0)

\* The loop of unregister_task(const std::string&) over the observers of the file.
RECURSIVE ResetAndDelete(_, _, _)
ResetAndDelete(m, list, i) ==
    IF i > Len(list) THEN m
    ELSE LET m1 == set_watch_descriptor(m, list[i].task, -1)
             m2 == IF list[i].ownership = OWN_TASK THEN delete_task(m1, list[i].task) ELSE m1
         IN  ResetAndDelete(m2, list, i + 1)

\* unregister_task(const std::string& file); g: what the two reads of
\* task_list[0].task->watch_descriptor() yield if that observer was deleted.
unregister_task_file(m, path, g) ==
    IF ~initialized THEN Ret(m, -2)
    ELSE
      LET normalize_file == normalize_path(path) IN
      IF normalize_file = "" THEN Ret(m, -3)
      ELSE IF normalize_file \notin DOMAIN m.ts \/ m.ts[normalize_file] = <<>> THEN Ret(m, -4)
      ELSE
        LET task_list == m.ts[normalize_file]
            m1 == ResetAndDelete(m, task_list, 1)
            m2 == read_wd(m1, task_list[1].task)
            m3 == IF watch_descriptor(m2, task_list[1].task, g[1]) >= 0
                  THEN LET wd == watch_descriptor(m2, task_list[1].task, g[2])
                       IN  EraseWd(inotify_rm_watch(m2, wd), wd)
                  ELSE m2
        IN  Ret([m3 EXCEPT !.ts = Restrict(@, DOMAIN @ \ {normalize_file})], 0)

\* A shutdown that would leave the registry as it is.
unregister_nothing(m, order) == Ret(m, 0)

\* The inner loop of unregister_all_tasks over the observers of one file.
RECURSIVE RemoveAndDelete(_, _, _)
RemoveAndDelete(m, list, i) ==
    IF i > Len(list) THEN m
    ELSE LET t  == list[i].task
             m1 == IF m.wd[t] >= 0 THEN EraseWd(inotify_rm_watch(m, m.wd[t]), m.wd[t]) ELSE m
             m2 == IF list[i].ownership = OWN_TASK THEN delete_task(m1, t) ELSE m1
         IN  RemoveAndDelete(m2, list, i + 1)

RECURSIVE RemoveAllFiles(_, _, _)
RemoveAllFiles(m, order, k) ==
    IF k > Len(order) THEN m
    ELSE RemoveAllFiles(RemoveAndDelete(m, m.ts[order[k]], 1), order, k + 1)

\* A shutdown that would delete the observers and leave them in the registry.
unregister_without_clear(m, order) ==
    IF ~initialized THEN Ret(m, -1)
    ELSE Ret(RemoveAllFiles(m, order, 1), 0)

\* unregister_all_tasks(); order: the order in which _tasks is enumerated.
unregister_all_tasks(m, order) ==
    IF ~initialized THEN Ret(m, -1)
    ELSE LET m1 == RemoveAllFiles(m, order, 1)
         IN  Ret([m1 EXCEPT !.ts = EmptyMap, !.rev = EmptyMap], 0)

(* ---------------------------------------------------------------------- *)
(* HotLoader: the worker's procedures                                      *)
(* ---------------------------------------------------------------------- *)

\* A reset that would reach the first observer of the list only.
ResetFirst(m, list, i) ==
    IF i > Len(list) THEN m ELSE set_watch_descriptor(m, list[1].task, -1)

\* for (task_info : task_list) task_info.task->set_watch_descriptor(-1);
RECURSIVE ResetAll(_, _, _)
ResetAll(m, list, i) ==
    IF i > Len(list) THEN m
    ELSE ResetAll(set_watch_descriptor(m, list[i].task, -1), list, i + 1)

\* A loop that would give each observer the new descriptor before it reloads it.
RECURSIVE RecordThenReload(_, _, _, _)
RecordThenReload(m, list, i, wd) ==
    IF i > Len(list) THEN m
    ELSE RecordThenReload(on_reload(set_watch_descriptor(m, list[i].task, wd), list[i].task),
                          list, i + 1, wd)

\* for (task_info : task_list) { task->on_reload(); task->set_watch_descriptor(wd); }
RECURSIVE ReloadAll(_, _, _, _)
ReloadAll(m, list, i, wd) ==
    IF i > Len(list) THEN m
    ELSE ReloadAll(set_watch_descriptor(on_reload(m, list[i].task), list[i].task, wd),
                   list, i + 1, wd)

\* rewatch_task(task); ok: whether the kernel can create a new watch.
rewatch_task(m, task, ok) ==
    IF task = NullTask THEN m
    ELSE
      LET file == watch_file(task) IN
      IF file \notin DOMAIN m.ts \/ m.ts[file] = <<>> THEN m
      ELSE
        LET task_list == m.ts[file]
            old == m.wd[task_list[1].task]
            m1 == IF old >= 0 THEN EraseWd(inotify_rm_watch(m, old), old) ELSE m
        IN  IF ~exists[file] THEN ResetAll(m1, task_list, 1)
            ELSE
              LET m2 == inotify_add_watch(m1, file, ok)
                  wd == m2.ret
              IN  IF wd >= 0
                  THEN PutWd(ReloadAll(m2, task_list, 1, wd), wd, file)
                  ELSE ResetAll(m2, task_list, 1)

\* The body of restart_stopped_tasks for one entry of _tasks.
RestartEntry(m, file, ok) ==
    LET task_list == m.ts[file] IN
    IF task_list = <<>> THEN m
    ELSE IF m.wd[task_list[1].task] < 0 /\ exists[file]
    THEN LET m1 == inotify_add_watch(m, file, ok)
             wd == m1.ret
         IN  IF wd >= 0 THEN PutWd(ReloadAll(m1, task_list, 1, wd), wd, file) ELSE m1
    ELSE m

\* restart_stopped_tasks(); order: the order in which _tasks is enumerated,
\* oks: per file, whether the kernel can create a new watch.
RECURSIVE restart_stopped_tasks(_, _, _, _)
restart_stopped_tasks(m, order, oks, k) ==
    IF k > Len(order) THEN m
    ELSE restart_stopped_tasks(RestartEntry(m, order[k], oks[order[k]]), order, oks, k + 1)

\* The loop of work_loop over the observers of the file of one (wd, mask) pair.
RECURSIVE DispatchList(_, _, _, _, _)
DispatchList(m, list, i, mask, oks) ==
    IF i > Len(list) THEN m
    ELSE LET task == list[i].task
             m1 == IF IN_IGNORED \in mask THEN rewatch_task(m, task, oks[i])
                                         ELSE on_reload(m, task)
         IN  DispatchList(m1, list, i + 1, mask, oks)

\* A dispatch that would not look up the file of the descriptor: it visits the
\* observers of every file.
DispatchEveryFile(m, wd, mask, oks) ==
    LET m1 == IF "F" \in DOMAIN m.ts THEN DispatchList(m, m.ts["F"], 1, mask, oks) ELSE m
    IN  IF "G" \in DOMAIN m1.ts
        THEN DispatchList(m1, m1.ts["G"], 1, mask, [i \in 1..Len(m1.ts["G"]) |-> TRUE])
        ELSE m1

\* The body of work_loop's loop over event_masks for one (wd, mask) pair.
DispatchEvent(m, wd, mask, oks) ==
    IF wd \in DOMAIN m.rev
    THEN LET file == m.rev[wd] IN
         IF file \in DOMAIN m.ts THEN DispatchList(m, m.ts[file], 1, mask, oks) ELSE m
    ELSE m

\* close_file_descriptors()
close_file_descriptors ==
    /\ inotify_fd' = "closed"
    /\ epoll_fd' = "closed"

\* The state an operation leaves behind.
Commit(m) ==
    /\ tasks' = m.ts
    /\ watch_descriptors' = m.rev
    /\ task_wd' = [t \in Observers |-> IF m.dead[t] > 0 THEN -1 ELSE m.wd[t]]
    /\ destroyed' = m.dead
    /\ kwatch' = m.kw
    /\ next_wd' = m.nwd
    /\ queue' = m.q
    /\ epoll_ready' = m.rdy

registry == <<tasks, watch_descriptors, task_wd, destroyed>>
kernel == <<kwatch, next_wd, queue, epoll_ready>>
lifecycle == <<initialized, running, inotify_fd, epoll_fd, joinable, run_pc>>
worker == <<pc, event_masks, mutex>>
history == <<unregistered, stop_returned, stop_again, last_init>>

(* ---------------------------------------------------------------------- *)
(* Initial state: a constructed, uninitialized HotLoader; the files exist  *)
(* and the observers were constructed on them.                             *)
(* ---------------------------------------------------------------------- *)

Init ==
    /\ initialized = FALSE
    /\ running = FALSE
    /\ inotify_fd = "closed"
    /\ epoll_fd = "closed"
    /\ tasks = EmptyMap
    /\ watch_descriptors = EmptyMap
    /\ task_wd = [t \in Observers |-> -1]
    /\ destroyed = [t \in Observers |-> 0]
    /\ joinable = FALSE
    /\ mutex = "free"
    /\ pc = "none"
    /\ event_masks = EmptyMap
    /\ stop_pc = "idle"
    /\ kwatch = EmptyMap
    /\ next_wd = 1
    /\ queue = {}
    /\ epoll_ready = FALSE
    /\ exists = [f \in Files |-> TRUE]
    /\ proc = "alive"
    /\ run_pc = [c \in Callers |-> "idle"]
    /\ unregistered = {}
    /\ stop_returned = FALSE
    /\ stop_again = FALSE
    /\ last_init = "none"

\* A thread that would enter its critical section without taking _mutex.
no_lock == TRUE

\* std::lock_guard<std::mutex> lock(_mutex): the thread goes on once no other
\* thread holds _mutex.
lock_guard == mutex = "free"

(* ---------------------------------------------------------------------- *)
(* Lifecycle calls                                                         *)
(* ---------------------------------------------------------------------- *)

InitOutcomes == {"ok", "inotify_init1 fails", "epoll_create1 fails", "epoll_ctl fails"}

\* What init() returns.
init_ret(outcome) ==
    IF initialized THEN 0
    ELSE IF outcome = "inotify_init1 fails" THEN -1
    ELSE IF outcome = "epoll_create1 fails" THEN -2
    ELSE IF outcome = "epoll_ctl fails" THEN -3
    ELSE 0

\* An init() that would return on a failed epoll_create1 or epoll_ctl without
\* closing what it has opened.
init_without_close(outcome) ==
    /\ proc = "alive"
    /\ stop_pc = "idle"
    /\ IF initialized
       THEN /\ UNCHANGED <<initialized, inotify_fd, epoll_fd>>
       ELSE IF outcome = "inotify_init1 fails"
       THEN /\ inotify_fd' = "closed"
            /\ UNCHANGED <<initialized, epoll_fd>>
       ELSE IF outcome = "epoll_create1 fails"
       THEN /\ inotify_fd' = "open"
            /\ UNCHANGED <<initialized, epoll_fd>>
       ELSE IF outcome = "epoll_ctl fails"
       THEN /\ inotify_fd' = "open"
            /\ epoll_fd' = "open"
            /\ UNCHANGED initialized
       ELSE /\ inotify_fd' = "open"
            /\ epoll_fd' = "open"
            /\ initialized' = TRUE
    /\ stop_returned' = FALSE
    /\ stop_again' = FALSE
    /\ last_init' = IF initialized THEN "again" ELSE IF init_ret(outcome) = 0 THEN "none" ELSE "failed"
    /\ UNCHANGED <<running, joinable, registry, kernel, worker, stop_pc, exists, proc,
                   run_pc, unregistered>>

\* init()
init(outcome) ==
    /\ proc = "alive"
    /\ stop_pc = "idle"
    /\ IF initialized
       THEN /\ UNCHANGED <<initialized, inotify_fd, epoll_fd>>
       ELSE IF outcome = "inotify_init1 fails"
       THEN /\ inotify_fd' = "closed"
            /\ UNCHANGED <<initialized, epoll_fd>>
       ELSE IF outcome = "epoll_create1 fails"
       THEN /\ close_file_descriptors
            /\ UNCHANGED initialized
       ELSE IF outcome = "epoll_ctl fails"
       THEN /\ close_file_descriptors
            /\ UNCHANGED initialized
       ELSE /\ inotify_fd' = "open"
            /\ epoll_fd' = "open"
            /\ initialized' = TRUE
    /\ stop_returned' = FALSE
    /\ stop_again' = FALSE
    /\ last_init' = IF initialized THEN "again" ELSE IF init_ret(outcome) = 0 THEN "none" ELSE "failed"
    /\ UNCHANGED <<running, joinable, registry, kernel, worker, stop_pc, exists, proc,
                   run_pc, unregistered>>

\* run()
run ==
    /\ proc = "alive"
    /\ stop_pc = "idle"
    /\ IF running
       THEN /\ UNCHANGED <<running, joinable, pc, proc>>
       ELSE IF ~initialized
       THEN /\ UNCHANGED <<running, joinable, pc, proc>>
       ELSE /\ running' = TRUE
            \* assigning to a joinable std::thread terminates the process
            /\ IF joinable
               THEN proc' = "aborted" /\ UNCHANGED <<joinable, pc>>
               ELSE joinable' = TRUE /\ pc' = "top" /\ UNCHANGED proc
    /\ stop_returned' = FALSE
    /\ stop_again' = FALSE
    /\ last_init' = "none"
    /\ UNCHANGED <<initialized, inotify_fd, epoll_fd, registry, kernel, event_masks,
                   mutex, stop_pc, exists, run_pc, unregistered>>

\* What run() returns when both of its tests are made in the current state.
run_ret == IF running THEN -1 ELSE IF ~initialized THEN -2 ELSE 0

\* run() called by thread c, first half: the tests _running.load() and
\* _initialized.load(). Nothing orders them with the store that follows.
RunCheck(c) ==
    /\ proc = "alive"
    /\ run_pc[c] = "idle"
    /\ run_pc' = [run_pc EXCEPT ![c] = IF run_ret = 0 THEN "checked" ELSE "idle"]
    /\ stop_returned' = FALSE
    /\ stop_again' = FALSE
    /\ last_init' = "none"
    /\ UNCHANGED <<initialized, running, inotify_fd, epoll_fd, joinable, registry, kernel,
                   worker, stop_pc, exists, proc, unregistered>>

\* run() called by thread c, second half: _running.store(true) and the
\* assignment of a new std::thread to _worker_thread, which terminates the
\* process when _worker_thread is joinable.
RunStart(c) ==
    /\ proc = "alive"
    /\ run_pc[c] = "checked"
    /\ run_pc' = [run_pc EXCEPT ![c] = "idle"]
    /\ running' = TRUE
    /\ IF joinable
       THEN proc' = "aborted" /\ UNCHANGED <<joinable, pc>>
       ELSE joinable' = TRUE /\ pc' = "top" /\ UNCHANGED proc
    /\ stop_returned' = FALSE
    /\ stop_again' = FALSE
    /\ last_init' = "none"
    /\ UNCHANGED <<initialized, inotify_fd, epoll_fd, registry, kernel, event_masks,
                   mutex, stop_pc, exists, unregistered>>

\* A stop() that would not clear _running before it joins the worker.
stop_without_store ==
    /\ proc = "alive"
    /\ stop_pc = "idle"
    /\ stop_pc' = IF joinable THEN "join" ELSE "unregister"
    /\ stop_returned' = FALSE
    /\ stop_again' = stop_returned
    /\ last_init' = "none"
    /\ UNCHANGED <<initialized, running, inotify_fd, epoll_fd, joinable, registry, kernel,
                   worker, exists, proc, run_pc, unregistered>>

\* stop(), called by a thread of the host: _running.store(false) and the
\* joinable() test.
StopBegin ==
    /\ proc = "alive"
    /\ stop_pc = "idle"
    /\ running' = FALSE
    /\ stop_pc' = IF joinable THEN "join" ELSE "unregister"
    /\ stop_returned' = FALSE
    /\ stop_again' = stop_returned
    /\ last_init' = "none"
    /\ UNCHANGED <<initialized, inotify_fd, epoll_fd, joinable, registry, kernel,
                   worker, exists, proc, run_pc, unregistered>>

\* stop(): _worker_thread.join() returns once the worker has left work_loop
\* (pc stays "done": the thread has finished).
StopJoin ==
    /\ proc = "alive"
    /\ stop_pc = "join"
    /\ pc = "done"
    /\ joinable' = FALSE
    /\ stop_pc' = "unregister"
    /\ UNCHANGED <<initialized, running, inotify_fd, epoll_fd, registry, kernel,
                   worker, exists, proc, run_pc, history>>

\* stop(): unregister_all_tasks(), after which stop() returns.
StopFinish ==
    /\ proc = "alive"
    /\ stop_pc = "unregister"
    /\ lock_guard
    /\ \E order \in Orders(DOMAIN tasks) :
          LET m == unregister_all_tasks(Cur, order)
          IN  Commit(m)
    /\ stop_pc' = "idle"
    /\ unregistered' = unregistered \cup Registered(tasks)
    /\ stop_returned' = TRUE
    /\ UNCHANGED <<lifecycle, worker, exists, proc, stop_again, last_init>>

\* ~HotLoader(): stop() with no worker to join, then close_file_descriptors();
\* the singleton is destroyed when the process exits.
Destructor ==
    /\ proc = "alive"
    /\ stop_pc = "idle"
    /\ ~joinable
    /\ lock_guard
    /\ running' = FALSE
    /\ \E order \in Orders(DOMAIN tasks) :
          LET m == unregister_all_tasks(Cur, order)
          IN  Commit(m)
    /\ close_file_descriptors
    /\ proc' = "exited"
    /\ unregistered' = unregistered \cup Registered(tasks)
    /\ stop_returned' = FALSE
    /\ stop_again' = FALSE
    /\ last_init' = "none"
    /\ UNCHANGED <<initialized, joinable, worker, stop_pc, exists, run_pc>>

(* ---------------------------------------------------------------------- *)
(* Registry calls made by threads of the host                              *)
(* ---------------------------------------------------------------------- *)

\* The observers a caller can still pass: the ones not deleted.
Alive(t) == IF t = NullTask THEN TRUE ELSE destroyed[t] = 0

NoGarbage(n) == {[i \in 1..n |-> -1]}

\* unregister_task(task) reads the observer after deleting it when the
\* registry owns it and it is the only observer of its file.
ReadsDeleted(task) ==
    /\ task # NullTask
    /\ initialized
    /\ watch_file(task) \in DOMAIN tasks
    /\ Len(tasks[watch_file(task)]) = 1
    /\ tasks[watch_file(task)][1] = [task |-> task, ownership |-> OWN_TASK]

\* unregister_task(file) reads the first observer of the file after the loop
\* that deletes the observers the registry owns.
ReadsDeletedFirst(path) ==
    /\ initialized
    /\ normalize_path(path) \in DOMAIN tasks
    /\ tasks[normalize_path(path)] # <<>>
    /\ tasks[normalize_path(path)][1].ownership = OWN_TASK

\* What the reads of unregister_task(task) can yield.
TaskReads(task) == IF ReadsDeleted(task) THEN [1..3 -> Garbage(task)] ELSE NoGarbage(3)

\* What the reads of unregister_task(file) can yield.
FirstReads(path) ==
    IF ReadsDeletedFirst(path)
    THEN [1..2 -> Garbage(tasks[normalize_path(path)][1].task)]
    ELSE NoGarbage(2)

RegisterTask(task, ownership) ==
    /\ proc = "alive"
    /\ lock_guard
    /\ Alive(task)
    /\ \E ok \in BOOLEAN :
          LET m == register_task(Cur, task, ownership, ok)
          IN  /\ Commit(m)
              /\ unregistered' = IF m.ret = 0 THEN unregistered \ {task} ELSE unregistered
    /\ stop_returned' = FALSE
    /\ stop_again' = FALSE
    /\ last_init' = "none"
    /\ UNCHANGED <<lifecycle, worker, stop_pc, exists, proc>>

UnregisterTask(task) ==
    /\ proc = "alive"
    /\ lock_guard
    /\ Alive(task)
    /\ \E g \in TaskReads(task) :
          LET m == unregister_task(Cur, task, g)
          IN  /\ Commit(m)
              /\ unregistered' = IF m.ret = 0 THEN unregistered \cup {task} ELSE unregistered
    /\ stop_returned' = FALSE
    /\ stop_again' = FALSE
    /\ last_init' = "none"
    /\ UNCHANGED <<lifecycle, worker, stop_pc, exists, proc>>

Paths == {"F", "./F", "G"}

UnregisterFile(path) ==
    /\ proc = "alive"
    /\ lock_guard
    /\ \E g \in FirstReads(path) :
          LET m == unregister_task_file(Cur, path, g)
          IN  /\ Commit(m)
              /\ unregistered' = IF m.ret = 0
                                 THEN unregistered \cup TasksOf(tasks[normalize_path(path)])
                                 ELSE unregistered
    /\ stop_returned' = FALSE
    /\ stop_again' = FALSE
    /\ last_init' = "none"
    /\ UNCHANGED <<lifecycle, worker, stop_pc, exists, proc>>

(* ---------------------------------------------------------------------- *)
(* The worker thread: work_loop                                            *)
(* ---------------------------------------------------------------------- *)

\* stop() called by the worker itself: _worker_thread is joinable and is the
\* calling thread, join() throws std::system_error, nothing catches it and
\* std::terminate ends the process.
StopFromWorker ==
    /\ running' = FALSE
    /\ proc' = IF joinable THEN "aborted" ELSE proc
    /\ pc' = "fatal"

\* while (_running.load()) { restart_stopped_tasks(); ...
WorkLoopTop ==
    /\ proc = "alive"
    /\ pc = "top"
    /\ lock_guard
    /\ IF running
       THEN /\ \E order \in Orders(DOMAIN tasks), oks \in [Files -> BOOLEAN] :
                  Commit(restart_stopped_tasks(Cur, order, oks, 1))
            /\ pc' = "wait"
       ELSE /\ pc' = "done"
            /\ UNCHANGED <<registry, kernel>>
    /\ UNCHANGED <<lifecycle, event_masks, mutex, stop_pc, exists, proc, history>>

WaitOutcomes == {"ready", "timeout", "EINTR", "error"}

\* An epoll_wait without timeout (kEpollTimeout = -1): it returns only when
\* the inotify descriptor is ready.
epoll_wait_unbounded(outcome) ==
    /\ proc = "alive"
    /\ pc = "wait"
    /\ outcome = "ready"
    /\ epoll_ready
    /\ pc' = "read"
    /\ epoll_ready' = FALSE
    /\ event_masks' = EmptyMap
    /\ UNCHANGED <<initialized, running, inotify_fd, epoll_fd, joinable, registry, kwatch,
                   next_wd, queue, mutex, stop_pc, exists, proc, run_pc, history>>

\* epoll_wait(_epoll_fd, events, kMaxEventCount, kEpollTimeout)
EpollWait(outcome) ==
    /\ proc = "alive"
    /\ pc = "wait"
    /\ outcome = "ready" => epoll_ready
    /\ outcome = "timeout" => ~epoll_ready
    /\ IF outcome = "error"
       THEN /\ StopFromWorker
            /\ UNCHANGED <<epoll_ready, event_masks>>
       ELSE IF outcome = "ready"
       THEN /\ pc' = "read"
            /\ epoll_ready' = FALSE
            /\ event_masks' = EmptyMap
            /\ UNCHANGED <<running, proc>>
       ELSE /\ pc' = "top"
            /\ UNCHANGED <<running, proc, epoll_ready, event_masks>>
    /\ UNCHANGED <<initialized, inotify_fd, epoll_fd, joinable, registry, kwatch,
                   next_wd, queue, mutex, stop_pc, exists, run_pc, history>>

\* A reader that would store the mask of each event in place of the mask it
\* holds for the descriptor (event_masks[event->wd] = event->mask).
RECURSIVE Overwrite(_, _)
Overwrite(masks, q) ==
    IF q = {} THEN masks
    ELSE LET ev == CHOOSE x \in q : TRUE
         IN  Overwrite((ev.wd :> {ev.mask}) @@ masks, q \ {ev})

\* event_masks[event->wd] |= event->mask, for every event of one read()
RECURSIVE Aggregate(_, _)
Aggregate(masks, q) ==
    IF q = {} THEN masks
    ELSE LET ev == CHOOSE x \in q : TRUE
             old == IF ev.wd \in DOMAIN masks THEN masks[ev.wd] ELSE {}
         IN  Aggregate((ev.wd :> (old \cup {ev.mask})) @@ masks, q \ {ev})

ReadOutcomes == {"events", "EAGAIN", "EINTR", "error"}

\* read(_inotify_fd, event_buf, kEventBufferSize) in the drain loop
ReadEvents(outcome) ==
    /\ proc = "alive"
    /\ pc = "read"
    /\ outcome = "events" => queue # {}
    /\ outcome = "EAGAIN" => queue = {}
    /\ IF outcome = "error"
       THEN /\ StopFromWorker
            /\ UNCHANGED <<queue, event_masks>>
       ELSE IF outcome = "events"
       THEN /\ event_masks' = Aggregate(event_masks, queue)
            /\ queue' = {}
            /\ UNCHANGED <<running, proc, pc>>
       ELSE /\ pc' = IF outcome = "EAGAIN" THEN "dispatch" ELSE pc
            /\ UNCHANGED <<running, proc, queue, event_masks>>
    /\ UNCHANGED <<initialized, inotify_fd, epoll_fd, joinable, registry, kwatch,
                   next_wd, epoll_ready, mutex, stop_pc, exists, run_pc, history>>

\* A worker that would leave the drain loop after one read().
ReadOnce ==
    /\ proc = "alive"
    /\ pc = "read"
    /\ \E S \in SUBSET queue :
          /\ S # {}
          /\ S # queue
          /\ event_masks' = Aggregate(event_masks, S)
          /\ queue' = queue \ S
    /\ pc' = "dispatch"
    /\ UNCHANGED <<lifecycle, registry, kwatch, next_wd, epoll_ready, mutex, stop_pc,
                   exists, proc, history>>

\* read(_inotify_fd, event_buf, kEventBufferSize) when more is queued than the
\* buffer takes: it returns a part of the queue, and the drain loop goes on.
ReadSome ==
    /\ proc = "alive"
    /\ pc = "read"
    /\ \E S \in SUBSET queue :
          /\ S # {}
          /\ S # queue
          /\ event_masks' = Aggregate(event_masks, S)
          /\ queue' = queue \ S
    /\ UNCHANGED <<lifecycle, registry, kwatch, next_wd, epoll_ready, mutex, pc, stop_pc,
                   exists, proc, history>>

\* The observers the dispatch loop visits for descriptor wd.
Visited(wd) ==
    IF wd \in DOMAIN watch_descriptors /\ watch_descriptors[wd] \in DOMAIN tasks
    THEN tasks[watch_descriptors[wd]]
    ELSE <<>>

\* std::lock_guard lock(_mutex) and one iteration of
\* for (const auto& [wd, mask] : event_masks); the lock is released after the
\* last iteration.
Dispatch(wd) ==
    /\ proc = "alive"
    /\ pc = "dispatch"
    /\ wd \in DOMAIN event_masks
    /\ \E oks \in [1..Len(Visited(wd)) -> BOOLEAN] :
          Commit(DispatchEvent(Cur, wd, event_masks[wd], oks))
    /\ event_masks' = Restrict(event_masks, DOMAIN event_masks \ {wd})
    /\ mutex' = IF DOMAIN event_masks = {wd} THEN "free" ELSE "worker"
    /\ pc' = IF DOMAIN event_masks = {wd} THEN "top" ELSE "dispatch"
    /\ UNCHANGED <<lifecycle, stop_pc, exists, proc, history>>

\* The dispatch loop when the drain read no event at all.
DispatchNothing ==
    /\ proc = "alive"
    /\ pc = "dispatch"
    /\ event_masks = EmptyMap
    /\ pc' = "top"
    /\ UNCHANGED <<lifecycle, registry, kernel, event_masks, mutex, stop_pc, exists, proc,
                   history>>

(* ---------------------------------------------------------------------- *)
(* The file system: what editors and the host do to the watched files      *)
(* ---------------------------------------------------------------------- *)

EnqueueAll(q, ws, k) == q \cup {[wd |-> w, mask |-> k] : w \in ws}

\* A write to the file ends with close(): IN_CLOSE_WRITE on its watch.
FileWrite(f) ==
    /\ proc = "alive"
    /\ exists[f]
    /\ queue' = EnqueueAll(queue, WatchesOn(kwatch, f), IN_CLOSE_WRITE)
    /\ epoll_ready' = (epoll_ready \/ WatchesOn(kwatch, f) # {})
    /\ UNCHANGED <<lifecycle, registry, kwatch, next_wd, worker, stop_pc, exists, proc,
                   history>>

\* The file is unlinked: the kernel drops its watch and queues IN_IGNORED.
FileDelete(f) ==
    /\ proc = "alive"
    /\ exists[f]
    /\ exists' = [exists EXCEPT ![f] = FALSE]
    /\ kwatch' = Restrict(kwatch, DOMAIN kwatch \ WatchesOn(kwatch, f))
    /\ queue' = EnqueueAll(queue, WatchesOn(kwatch, f), IN_IGNORED)
    /\ epoll_ready' = (epoll_ready \/ WatchesOn(kwatch, f) # {})
    /\ UNCHANGED <<lifecycle, registry, next_wd, worker, stop_pc, proc, history>>

\* The file is created again (a new inode, watched by nobody).
FileCreate(f) ==
    /\ proc = "alive"
    /\ ~exists[f]
    /\ exists' = [exists EXCEPT ![f] = TRUE]
    /\ UNCHANGED <<lifecycle, registry, kernel, worker, stop_pc, proc, history>>

(* ---------------------------------------------------------------------- *)
(* The specifications: host programs over the same operations              *)
(* ---------------------------------------------------------------------- *)

Watched(f) == WatchesOn(kwatch, f) # {}

\* A host that only uses the registry and never starts the worker: init with
\* every outcome, every registration and unregistration (null pointers, both
\* ownerships, every spelling of the paths), stop, the destructor, and the
\* file being replaced.
NextRegistry ==
    \/ \E outcome \in InitOutcomes : ~initialized /\ init(outcome)
    \/ StopBegin
    \/ StopFinish
    \/ Destructor
    \/ \E task \in Tasks \cup {NullTask}, ownership \in OwnerShip : RegisterTask(task, ownership)
    \/ \E task \in Tasks \cup {NullTask} : UnregisterTask(task)
    \/ \E path \in Paths : UnregisterFile(path)
    \/ \E f \in Replaced : FileDelete(f)
    \/ \E f \in Replaced : FileCreate(f)

SpecRegistry == Init /\ [][NextRegistry]_vars

\* A host that goes through the whole lifecycle, with every outcome of init,
\* epoll_wait and read, and one observer on one file.
NextLifecycle ==
    \/ \E outcome \in InitOutcomes : init(outcome)
    \/ run
    \/ StopBegin
    \/ StopJoin
    \/ StopFinish
    \/ Destructor
    \/ \E ownership \in OwnerShip : RegisterTask("A", ownership)
    \/ UnregisterTask("A")
    \/ WorkLoopTop
    \/ \E outcome \in WaitOutcomes : EpollWait(outcome)
    \/ \E outcome \in ReadOutcomes : ReadEvents(outcome)
    \/ \E wd \in DOMAIN event_masks : Dispatch(wd)
    \/ DispatchNothing
    \/ Watched("F") /\ FileWrite("F")

SpecLifecycle == Init /\ [][NextLifecycle]_vars

\* The observers of file F.
OnF == {t \in Tasks : watch_file(t) = "F"}

\* A host that calls init and run once (as src/example.cpp does) and then
\* registers and unregisters the observers of one file while the worker runs
\* and the file is written, deleted and created again.
NextDispatch ==
    \/ ~initialized /\ init("ok")
    \/ initialized /\ pc = "none" /\ run
    \/ \E task \in OnF : \E ownership \in Ownerships(task) : RegisterTask(task, ownership)
    \/ \E task \in OnF : UnregisterTask(task)
    \/ UnregisterFile("./F")
    \/ WorkLoopTop
    \/ \E outcome \in {"ready", "timeout"} : EpollWait(outcome)
    \/ \E outcome \in {"events", "EAGAIN"} : ReadEvents(outcome)
    \/ \E wd \in DOMAIN event_masks : Dispatch(wd)
    \/ DispatchNothing
    \/ Watched("F") /\ FileWrite("F")
    \/ \E f \in Replaced : FileDelete(f)
    \/ \E f \in Replaced : FileCreate(f)

SpecDispatch == Init /\ [][NextDispatch]_vars

\* A host that calls init and run once and then registers observers of two
\* files with OWN_TASK and unregisters them (as the demos of src/example.cpp
\* do) while the worker runs and the files are written.
NextPaths ==
    \/ ~initialized /\ init("ok")
    \/ initialized /\ pc = "none" /\ run
    \/ \E task \in Tasks : RegisterTask(task, OWN_TASK)
    \/ \E task \in Tasks : UnregisterTask(task)
    \/ WorkLoopTop
    \/ \E outcome \in {"ready", "timeout"} : EpollWait(outcome)
    \/ \E outcome \in {"events", "EAGAIN"} : ReadEvents(outcome)
    \/ \E wd \in DOMAIN event_masks : Dispatch(wd)
    \/ DispatchNothing
    \/ \E f \in Files : Watched(f) /\ FileWrite(f)

SpecPaths == Init /\ [][NextPaths]_vars

\* A host whose threads call run() and stop() at any time on an instance
\* with one observer, while the worker runs.
NextRun ==
    \/ \E outcome \in {"ok", "epoll_ctl fails"} : ~initialized /\ init(outcome)
    \/ \E c \in Callers : RunCheck(c)
    \/ \E c \in Callers : RunStart(c)
    \/ StopBegin
    \/ StopJoin
    \/ StopFinish
    \/ RegisterTask("A", DOESNT_OWN_TASK)
    \/ WorkLoopTop
    \/ \E outcome \in {"ready", "timeout"} : EpollWait(outcome)
    \/ \E outcome \in {"events", "EAGAIN"} : ReadEvents(outcome)
    \/ \E wd \in DOMAIN event_masks : Dispatch(wd)
    \/ DispatchNothing
    \/ Watched("F") /\ FileWrite("F")

SpecRun == Init /\ [][NextRun]_vars

\* A step of the worker thread.
WorkerStep ==
    \/ WorkLoopTop
    \/ \E outcome \in {"ready", "timeout"} : EpollWait(outcome)
    \/ \E outcome \in {"events", "EAGAIN"} : ReadEvents(outcome)
    \/ \E wd \in DOMAIN event_masks : Dispatch(wd)
    \/ DispatchNothing

\* The entry of file f holds observers and is unwatched: restart_stopped_tasks
\* tests the descriptor of its first observer.
UnwatchedEntry(f) ==
    /\ f \in DOMAIN tasks
    /\ tasks[f] # <<>>
    /\ task_wd[tasks[f][1].task] < 0

\* The entry of file f holds observers, all of which carry one descriptor that
\* is a live kernel watch of f and that the reverse index maps to f.
Armed(f) ==
    /\ f \in DOMAIN tasks
    /\ tasks[f] # <<>>
    /\ \E w \in DOMAIN kwatch :
          /\ kwatch[w] = f
          /\ \A i \in 1..Len(tasks[f]) : task_wd[tasks[f][i].task] = w
          /\ w \in DOMAIN watch_descriptors
          /\ watch_descriptors[w] = f

\* A re-arm pass in which the kernel grants the watch of every unwatched
\* entry whose file exists.
Rearm ==
    /\ \E f \in Files : UnwatchedEntry(f) /\ exists[f]
    /\ WorkLoopTop
    /\ \A f \in Files : (UnwatchedEntry(f) /\ exists[f]) => Armed(f)'

\* A host that calls init and run once and registers two observers on a file
\* that is deleted and created again while the worker runs. The worker thread
\* is scheduled again and again (its wait is bounded by kEpollTimeout), its
\* drain loop gets to the end of the queue, and watch creation succeeds in
\* the end when it can be retried again and again.
NextRearm ==
    \/ ~initialized /\ init("ok")
    \/ initialized /\ pc = "none" /\ run
    \/ \E task \in OnF : RegisterTask(task, OWN_TASK)
    \/ UnregisterTask("A")
    \/ WorkerStep
    \/ \E f \in Replaced : FileDelete(f)
    \/ \E f \in Replaced : FileCreate(f)

SpecRearm ==
    /\ Init
    /\ [][NextRearm]_vars
    /\ WF_vars(WorkerStep)
    /\ SF_vars(ReadEvents("EAGAIN"))
    /\ SF_vars(Rearm)

\* A host that calls init and run once, registers observers on two files and
\* unregisters one of them; the files are written again and again while the
\* worker runs, faster
\* at times than one read() can take. read is interrupted at times. The
\* worker thread is scheduled again and again and its reads catch
\* up with the writers: again and again a read() takes all that is queued,
\* and the next one finds the queue empty.
NextDrain ==
    \/ ~initialized /\ init("ok")
    \/ initialized /\ pc = "none" /\ run
    \/ RegisterTask("A", DOESNT_OWN_TASK)
    \/ \E task \in {"B", "C"} : RegisterTask(task, OWN_TASK)
    \/ UnregisterTask("B")
    \/ WorkLoopTop
    \/ \E outcome \in {"ready", "timeout"} : EpollWait(outcome)
    \/ \E outcome \in {"events", "EAGAIN", "EINTR"} : ReadEvents(outcome)
    \/ ReadSome
    \/ \E wd \in DOMAIN event_masks : Dispatch(wd)
    \/ DispatchNothing
    \/ \E f \in Files : Watched(f) /\ FileWrite(f)

SpecDrain ==
    /\ Init
    /\ [][NextDrain]_vars
    /\ WF_vars(WorkerStep)
    /\ SF_vars(ReadEvents("events"))
    /\ SF_vars(ReadEvents("EAGAIN"))

\* A host that misuses the registry of one file: calls before init() and
\* after a failed init(), null pointers, observers registered twice and
\* unregistered twice, paths that are not registered or do not exist.
NextMisuse ==
    \/ \E outcome \in InitOutcomes : init(outcome)
    \/ StopBegin
    \/ StopFinish
    \/ \E task \in OnF \cup {NullTask}, ownership \in OwnerShip : RegisterTask(task, ownership)
    \/ \E task \in OnF \cup {NullTask} : UnregisterTask(task)
    \/ \E path \in {"F", "./F"} : UnregisterFile(path)
    \/ \E f \in Replaced : FileDelete(f)
    \/ \E f \in Replaced : FileCreate(f)

SpecMisuse == Init /\ [][NextMisuse]_vars

\* A host that calls init once, starts and stops the worker again and again,
\* and registers and unregisters the observers of one file from other threads
\* at any time, also while stop() waits for the worker; the file is written
\* while it is watched. Every thread is scheduled again and again, and the
\* worker's drain loop gets to the end of the queue.
NextStop ==
    \/ ~initialized /\ init("ok")
    \/ initialized /\ ~running /\ run
    \/ StopBegin
    \/ StopJoin
    \/ StopFinish
    \/ RegisterTask("A", DOESNT_OWN_TASK)
    \/ RegisterTask("B", OWN_TASK)
    \/ UnregisterTask("A")
    \/ WorkerStep
    \/ Watched("F") /\ FileWrite("F")

SpecStop ==
    /\ Init
    /\ [][NextStop]_vars
    /\ WF_vars(WorkerStep)
    /\ SF_vars(ReadEvents("EAGAIN"))
    /\ WF_vars(StopJoin)
    /\ WF_vars(StopFinish)

\* A host that calls init and run once and keeps two observers on one file,
\* one of its own and one that the registry owns, while the worker runs and
\* the file is written, deleted and created again; it unregisters either
\* observer, and registers its own again, at any time.
NextRewatch ==
    \/ ~initialized /\ init("ok")
    \/ initialized /\ pc = "none" /\ run
    \/ RegisterTask("A", DOESNT_OWN_TASK)
    \/ RegisterTask("B", OWN_TASK)
    \/ \E task \in OnF : UnregisterTask(task)
    \/ WorkerStep
    \/ Watched("F") /\ FileWrite("F")
    \/ \E f \in Replaced : FileDelete(f)
    \/ \E f \in Replaced : FileCreate(f)

SpecRewatch == Init /\ [][NextRewatch]_vars

\* The three observers of file F.
OrderedOnF == {t \in Observers : watch_file(t) = "F"}

\* A host that calls init and run once and then registers three observers on
\* one file, in any order, keeping the ownership of all of them, and
\* unregisters and registers them again while the worker runs and the file is
\* written.
NextOrder ==
    \/ ~initialized /\ init("ok")
    \/ initialized /\ pc = "none" /\ run
    \/ \E task \in OrderedOnF : RegisterTask(task, DOESNT_OWN_TASK)
    \/ \E task \in OrderedOnF : UnregisterTask(task)
    \/ WorkerStep
    \/ Watched("F") /\ FileWrite("F")

SpecOrder == Init /\ [][NextOrder]_vars

(* ---------------------------------------------------------------------- *)
(* What the properties talk about                                          *)
(* ---------------------------------------------------------------------- *)

\* How often the effects tr invoke on_reload() on observer t.
ReloadCount(tr, t) ==
    Cardinality({i \in 1..Len(tr) : tr[i].e = "on_reload" /\ tr[i].t = t})

IsReload(e) == e.e = "on_reload"

\* The observers the effects tr invoke on_reload() on, in order.
Reloads(tr) == [i \in 1..Len(SelectSeq(tr, IsReload)) |-> SelectSeq(tr, IsReload)[i].t]

\* The observers of a list, in order.
ListTasks(list) == [i \in 1..Len(list) |-> list[i].task]

\* A list without observer t.
Others(list, t) == SelectSeq(list, LAMBDA x : x.task # t)

RegisteredAs(ts, t, o) ==
    \E f \in DOMAIN ts : \E i \in 1..Len(ts[f]) : ts[f][i] = [task |-> t, ownership |-> o]

\* Every observer of the list carries descriptor w.
AllCarry(list, w) == \A i \in 1..Len(list) : task_wd[list[i].task] = w

AllOk(n) == [i \in 1..n |-> TRUE]

\* What the worker's next step does, when that step is the re-arm pass.
RestartEffects ==
    IF proc = "alive" /\ pc = "top" /\ running /\ mutex = "free"
    THEN {restart_stopped_tasks(Cur, order, oks, 1) :
              order \in Orders(DOMAIN tasks), oks \in [Files -> BOOLEAN]}
    ELSE {}

\* What the worker's next step does, when that step dispatches a descriptor.
DispatchEffects ==
    IF proc = "alive" /\ pc = "dispatch"
    THEN UNION {{DispatchEvent(Cur, wd, event_masks[wd], oks) :
                     oks \in [1..Len(Visited(wd)) -> BOOLEAN]} : wd \in DOMAIN event_masks}
    ELSE {}

\* The worker is about to dispatch descriptor wd, which is the live watch of
\* file f, and every observer of f carries it.
AboutToDispatch(wd, f) ==
    /\ proc = "alive"
    /\ pc = "dispatch"
    /\ wd \in DOMAIN event_masks
    /\ f \in DOMAIN tasks
    /\ tasks[f] # <<>>
    /\ AllCarry(tasks[f], wd)

(* ---------------------------------------------------------------------- *)
(* The properties                                                          *)
(* ---------------------------------------------------------------------- *)

C2_OwnedDestroyedExactlyOnce ==
    [][\A t \in Tasks :
          /\ destroyed'[t] # destroyed[t] =>
                destroyed[t] = 0 /\ destroyed'[t] = 1 /\ RegisteredAs(tasks, t, OWN_TASK)
          /\ (RegisteredAs(tasks, t, OWN_TASK) /\ t \notin Registered(tasks')) =>
                destroyed'[t] = 1
          /\ (stop_pc = "unregister" /\ stop_pc' = "idle") => t \notin Registered(tasks')
      ]_vars

\* stop() has returned; the two owned observers were deleted once each, the
\* caller-owned observer was in the registry and is not deleted.
C2_Witness ==
    /\ stop_returned
    /\ destroyed = [t \in Observers |-> IF t \in {"A", "B"} THEN 1 ELSE 0]
    /\ "C" \in unregistered
    /\ tasks = EmptyMap

\* C3: no step of the worker (re-arm pass, dispatch of a write, rewatch)
\* invokes on_reload() on an observer whose unregistration has succeeded and
\* that was not registered again, whatever was queued or drained before.
C3_NoReloadAfterUnregister ==
    \A m \in RestartEffects \cup DispatchEffects :
        \A i \in 1..Len(m.tr) : m.tr[i].e = "on_reload" => m.tr[i].t \notin unregistered

\* The worker has drained an event of F and is about to dispatch it; A was
\* unregistered in the meantime and the dispatch reloads B only.
C3_Witness ==
    /\ "A" \in unregistered
    /\ \E wd \in DOMAIN event_masks :
          /\ AboutToDispatch(wd, "F")
          /\ Reloads(DispatchEvent(Cur, wd, event_masks[wd], AllOk(1)).tr) = <<"B">>

\* C4: when the worker dispatches a write-complete event of the live watch of
\* a file, it invokes on_reload() exactly once on each observer of that file,
\* in the order of the list, and on no other observer.
C4_WriteReloadsEachObserverOnce ==
    \A wd \in DOMAIN event_masks : \A f \in Files :
        (AboutToDispatch(wd, f) /\ event_masks[wd] = {IN_CLOSE_WRITE}
            /\ wd \in DOMAIN kwatch /\ kwatch[wd] = f) =>
        \A oks \in [1..Len(Visited(wd)) -> BOOLEAN] :
            Reloads(DispatchEvent(Cur, wd, event_masks[wd], oks).tr) = ListTasks(tasks[f])

\* A write of F is about to be dispatched while F has two observers and G has
\* one: the two observers of F are reloaded.
C4_Witness ==
    /\ "G" \in DOMAIN tasks
    /\ tasks["G"] # <<>>
    /\ "F" \in DOMAIN tasks
    /\ Len(tasks["F"]) = 2
    /\ \E wd \in DOMAIN event_masks :
          /\ AboutToDispatch(wd, "F")
          /\ event_masks[wd] = {IN_CLOSE_WRITE}
          /\ wd \in DOMAIN kwatch
          /\ Len(Reloads(DispatchEvent(Cur, wd, event_masks[wd], AllOk(2)).tr)) = 2

\* C5: when the worker dispatches the IN_IGNORED of the watch the observers of
\* a file carry, the file exists again and the kernel grants every watch, each
\* observer of the file gets exactly one on_reload().
C5_OneReloadPerObserverOnRecreate ==
    \A wd \in DOMAIN event_masks : \A f \in Files :
        (AboutToDispatch(wd, f) /\ IN_IGNORED \in event_masks[wd]
            /\ wd \in DOMAIN watch_descriptors /\ watch_descriptors[wd] = f
            /\ exists[f] /\ next_wd + Len(tasks[f]) <= MaxWd + 1) =>
        \A t \in TasksOf(tasks[f]) :
            ReloadCount(DispatchEvent(Cur, wd, event_masks[wd], AllOk(Len(tasks[f]))).tr, t) = 1

\* C6: a fatal error of epoll_wait or read in the worker does not end the
\* host process.
C6_FatalErrorFailStop ==
    pc = "fatal" => proc = "alive"

\* C7: a successful unregister_task(path) on a path with a live watch removes
\* the entry, deletes the owned observers, leaves the caller-owned ones alive
\* with descriptor -1, and leaves no kernel watch and no reverse-index key
\* for the path.
C7_UnregisterPathRemovesWatch ==
    \A path \in Paths :
        LET file == normalize_path(path) IN
        (proc = "alive" /\ mutex = "free" /\ initialized /\ file \in DOMAIN tasks
            /\ tasks[file] # <<>> /\ Watched(file)) =>
        \A g \in FirstReads(path) :
            LET m == unregister_task_file(Cur, path, g) IN
            /\ m.ret = 0
            /\ file \notin DOMAIN m.ts
            /\ \A i \in 1..Len(tasks[file]) :
                  IF tasks[file][i].ownership = OWN_TASK
                  THEN m.dead[tasks[file][i].task] = 1
                  ELSE m.dead[tasks[file][i].task] = 0 /\ m.wd[tasks[file][i].task] = -1
            /\ WatchesOn(m.kw, file) = {}
            /\ \A w \in DOMAIN m.rev : m.rev[w] # file

\* C8: with two or more observers on a watched file, unregister_task(t)
\* succeeds and removes only t: the other observers keep their place, their
\* ownership and their descriptor, the kernel watch, the reverse index and the
\* event queue are unchanged, and a write-complete event dispatched afterwards
\* reloads the remaining observers only.
C8_UnregisterOneOfSeveral ==
    \A t \in Tasks :
        LET file == watch_file(t) IN
        (proc = "alive" /\ mutex = "free" /\ initialized /\ destroyed[t] = 0
            /\ file \in DOMAIN tasks /\ Len(tasks[file]) >= 2
            /\ t \in TasksOf(tasks[file]) /\ task_wd[t] \in WatchesOn(kwatch, file)) =>
        \A g \in TaskReads(t) :
            LET m == unregister_task(Cur, t, g)
                rest == Others(tasks[file], t)
            IN  /\ m.ret = 0
                /\ m.ts = [tasks EXCEPT ![file] = rest]
                /\ \A u \in TasksOf(rest) : m.wd[u] = task_wd[u] /\ m.dead[u] = 0
                /\ m.kw = kwatch
                /\ m.rev = watch_descriptors
                /\ m.rev[task_wd[t]] = file
                /\ m.q = queue
                /\ \A oks \in [1..Len(rest) -> BOOLEAN] :
                      Reloads(DispatchEvent([m EXCEPT !.tr = <<>>], task_wd[t],
                                            {IN_CLOSE_WRITE}, oks).tr) = ListTasks(rest)

\* The owned observer A was unregistered and deleted; the caller-owned
\* observer B is still registered on F with the first watch the kernel handed
\* out, which is live and indexed.
C8_Witness ==
    /\ "A" \in unregistered
    /\ destroyed["A"] = 1
    /\ "F" \in DOMAIN tasks
    /\ tasks["F"] = <<[task |-> "B", ownership |-> DOESNT_OWN_TASK]>>
    /\ task_wd["B"] = 1
    /\ next_wd = 2
    /\ kwatch = (1 :> "F")
    /\ watch_descriptors = (1 :> "F")

\* C9: when unregister_task(t) removes the only observer of a file whose
\* watch is live, the kernel watch is removed, the reverse-index entry is
\* erased and the entry is deleted, for both ownerships.
C9_LastObserverRemovesWatch ==
    \A t \in Tasks :
        LET file == watch_file(t) IN
        (proc = "alive" /\ mutex = "free" /\ initialized /\ destroyed[t] = 0
            /\ file \in DOMAIN tasks /\ ListTasks(tasks[file]) = <<t>>
            /\ task_wd[t] \in WatchesOn(kwatch, file)) =>
        \A g \in TaskReads(t) :
            LET m == unregister_task(Cur, t, g) IN
            /\ m.ret = 0
            /\ file \notin DOMAIN m.ts
            /\ task_wd[t] \notin DOMAIN m.kw
            /\ task_wd[t] \notin DOMAIN m.rev

C11_AtMostOneRunSucceeds ==
    /\ ~initialized => run_ret = -2
    /\ running => run_ret = -1
    /\ Cardinality({c \in Callers : run_pc[c] = "checked"}) <= 1

\* A call of the host on the registry can be made now.
CallerCanEnter == proc = "alive" /\ mutex = "free"

\* The registry, the observers and the kernel are the same in m as now, and
\* the call that produced m had no effect.
NothingChanged(m) ==
    /\ m.ts = tasks
    /\ m.rev = watch_descriptors
    /\ m.wd = task_wd
    /\ m.dead = destroyed
    /\ m.kw = kwatch
    /\ m.nwd = next_wd
    /\ m.q = queue
    /\ m.rdy = epoll_ready
    /\ m.tr = <<>>

\* C12: register_task on an observer that is in the list of its file returns
\* -3 (duplicate) whatever ownership is passed and whether or not the kernel
\* could create a watch, and leaves the list, every descriptor and ownership,
\* the reverse index and the kernel watches as they were.
C12_DuplicateRegisterChangesNothing ==
    \A t \in Tasks :
        (CallerCanEnter /\ initialized /\ destroyed[t] = 0
            /\ watch_file(t) \in DOMAIN tasks /\ t \in TasksOf(tasks[watch_file(t)])) =>
        \A o \in OwnerShip, ok \in BOOLEAN :
            LET m == register_task(Cur, t, o, ok)
            IN  m.ret = -3 /\ NothingChanged(m)

\* A is registered with OWN_TASK in front of B on the watched file F, and a
\* second registration of A with the other ownership is refused.
C12_Witness ==
    /\ CallerCanEnter
    /\ initialized
    /\ "F" \in DOMAIN tasks
    /\ tasks["F"] = <<[task |-> "A", ownership |-> OWN_TASK],
                     [task |-> "B", ownership |-> DOESNT_OWN_TASK]>>
    /\ Watched("F")
    /\ register_task(Cur, "A", DOESNT_OWN_TASK, TRUE).ret = -3

\* C13: while init() has not succeeded, register_task and both forms of
\* unregister_task return -2 (not initialized) for every non-null argument
\* and change nothing; the registry, the reverse index and the kernel's watch
\* table are empty and every observer carries descriptor -1.
C13_NotInitializedNoPartialState ==
    (CallerCanEnter /\ ~initialized) =>
        /\ tasks = EmptyMap
        /\ watch_descriptors = EmptyMap
        /\ kwatch = EmptyMap
        /\ \A t \in Tasks : task_wd[t] = -1 /\ destroyed[t] = 0
        /\ \A t \in Tasks, o \in OwnerShip, ok \in BOOLEAN :
              LET m == register_task(Cur, t, o, ok)
              IN  m.ret = -2 /\ NothingChanged(m)
        /\ \A t \in Tasks : \A g \in TaskReads(t) :
              LET m == unregister_task(Cur, t, g)
              IN  m.ret = -2 /\ NothingChanged(m)
        /\ \A path \in Paths : \A g \in FirstReads(path) :
              LET m == unregister_task_file(Cur, path, g)
              IN  m.ret = -2 /\ NothingChanged(m)

\* init() has not succeeded, stop() was called all the same and has returned,
\* the file of A was deleted, and the three calls are refused with -2 (not
\* with the codes for a failed watch or an invalid path).
C13_Witness ==
    /\ CallerCanEnter
    /\ ~initialized
    /\ inotify_fd = "closed"
    /\ stop_returned
    /\ ~exists[watch_file("A")]
    /\ register_task(Cur, "A", OWN_TASK, TRUE).ret = -2
    /\ unregister_task(Cur, "A", <<-1, -1, -1>>).ret = -2
    /\ unregister_task_file(Cur, "./F", <<-1, -1>>).ret = -2

\* A step in which a thread of the host enters stop().
StopBeginStep == stop_pc = "idle" /\ stop_pc' # "idle"

\* The step in which stop() joins the worker.
StopJoinStep == stop_pc = "join" /\ stop_pc' = "unregister"

\* The step in which stop() unregisters everything and returns.
StopFinishStep == stop_pc = "unregister" /\ stop_pc' = "idle"

\* A step that changes nothing of the instance, the observers, the kernel and
\* the host process.
Quiet == UNCHANGED <<lifecycle, registry, kernel, worker, exists, proc, unregistered>>

C15_FailedWatchLeavesPathUnregistered ==
    /\ \A f \in DOMAIN tasks : tasks[f] # <<>>
    /\ \A t \in Tasks :
          (CallerCanEnter /\ initialized /\ destroyed[t] = 0
              /\ watch_file(t) \notin DOMAIN tasks) =>
          \A o \in OwnerShip, ok \in BOOLEAN :
              LET m == register_task(Cur, t, o, ok)
              IN  m.ret # 0 =>
                    /\ m.ret = -4
                    /\ watch_file(t) \notin DOMAIN m.ts
                    /\ m.rev = watch_descriptors
                    /\ m.wd[t] = -1

\* C16: unregister_task(observer) for an observer that is in no list of the
\* registry (its file has no entry, an entry with an empty list, or an entry
\* with other observers only) returns -4 (not found) and changes nothing: no
\* observer is deleted, no descriptor changes, no kernel watch and no
\* reverse-index key is removed.
C16_UnregisterUnknownChangesNothing ==
    \A t \in Tasks :
        (CallerCanEnter /\ initialized /\ destroyed[t] = 0 /\ t \notin Registered(tasks)) =>
        \A g \in TaskReads(t) :
            LET m == unregister_task(Cur, t, g)
            IN  m.ret = -4 /\ NothingChanged(m)

\* A was unregistered before and is alive; the watched file F of A holds the
\* owned observer B only; another unregister_task(A) is refused with -4.
C16_Witness ==
    /\ CallerCanEnter
    /\ initialized
    /\ "A" \in unregistered
    /\ destroyed["A"] = 0
    /\ "F" \in DOMAIN tasks
    /\ tasks["F"] = <<[task |-> "B", ownership |-> OWN_TASK]>>
    /\ Watched("F")
    /\ unregister_task(Cur, "A", <<-1, -1, -1>>).ret = -4

\* C17: while the worker holds _mutex (between two iterations of its dispatch
\* loop, after it has invoked on_reload() for one descriptor and before it
\* does so for the next) the only step that changes the registry, the reverse
\* index or a descriptor of an observer, or deletes an observer, is the
\* worker's own next iteration; only the dispatch loop holds the lock across
\* steps, and it gives it back when it leaves the loop.
C17_RegistryOnlyUnderLock ==
    [][ /\ mutex = "worker" =>
              /\ pc = "dispatch"
              /\ registry' # registry => (event_masks' # event_masks /\ pc' \in {"dispatch", "top"})
        /\ mutex' = "worker" => pc' = "dispatch"
        /\ (pc = "dispatch" /\ pc' # "dispatch") => mutex' = "free"
      ]_vars

\* The worker holds the lock in the middle of its dispatch loop: the write of
\* one file was dispatched, the write of F is next and will reload the two
\* observers of F, which callers are about to register and unregister.
C17_Witness ==
    /\ mutex = "worker"
    /\ "F" \in DOMAIN tasks
    /\ Len(tasks["F"]) = 2
    /\ "C" \in unregistered
    /\ \E wd \in DOMAIN event_masks :
          /\ AboutToDispatch(wd, "F")
          /\ Len(Reloads(DispatchEvent(Cur, wd, event_masks[wd], AllOk(2)).tr)) = 2

\* C18: an init() on an initialized instance returns 0 and changes nothing.
\* An init() in which inotify_init1, epoll_create1 or epoll_ctl fails returns
\* -1, -2 or -3, leaves the instance uninitialized with both descriptors
\* closed, and an init() right after it in which the three calls succeed
\* returns 0 and leaves the instance initialized with both descriptors open.
C18_InitIdempotentAndClean ==
    [][ \A outcome \in InitOutcomes :
          init(outcome) =>
            /\ initialized => (init_ret(outcome) = 0 /\ Quiet)
            /\ (~initialized /\ outcome # "ok") =>
                  /\ init_ret(outcome) \in {-1, -2, -3}
                  /\ ~initialized'
                  /\ inotify_fd' = "closed"
                  /\ epoll_fd' = "closed"
                  /\ UNCHANGED <<running, joinable, run_pc, registry, kernel, worker, proc>>
            /\ (~initialized /\ outcome = "ok") =>
                  /\ init_ret(outcome) = 0
                  /\ initialized'
                  /\ inotify_fd' = "open"
                  /\ epoll_fd' = "open"
                  /\ UNCHANGED <<running, joinable, run_pc, registry, kernel, worker, proc>>
      ]_vars

\* An init() has just failed: the instance is uninitialized, alive and holds
\* no descriptor, so that the next init() starts from the state of a new
\* instance.
C18_Witness ==
    /\ last_init = "failed"
    /\ proc = "alive"
    /\ ~initialized
    /\ inotify_fd = "closed"
    /\ epoll_fd = "closed"
    /\ stop_pc = "idle"

\* The worker thread is in work_loop.
WorkerUp == proc = "alive" /\ running /\ pc \in {"top", "wait", "read", "dispatch"}

\* What a re-arm pass does to the entries it arms: every observer of the entry
\* gets on_reload() once, in the order of the list, and then carries the new
\* descriptor, which is a live watch of the file and indexed to it.
RearmReloadsAll ==
    \A m \in RestartEffects : \A f \in Files :
        (UnwatchedEntry(f) /\ m.wd[tasks[f][1].task] >= 0) =>
            LET w == m.wd[tasks[f][1].task]
                OfF(e) == e.e = "on_reload" /\ watch_file(e.t) = f
            IN  /\ Reloads(SelectSeq(m.tr, OfF)) = ListTasks(tasks[f])
                /\ \A i \in 1..Len(tasks[f]) : m.wd[tasks[f][i].task] = w
                /\ w \in DOMAIN m.kw /\ m.kw[w] = f
                /\ w \in DOMAIN m.rev /\ m.rev[w] = f

\* C19: while the worker runs, an entry that is unwatched and whose file
\* exists gets armed (all its observers carry one live descriptor that the
\* reverse index maps to the file), unless before that the file is deleted
\* again, the entry is unregistered or the kernel has no descriptor left; no
\* kernel event is needed for it, the re-arm pass runs after every bounded
\* wait. The pass that arms an entry invokes on_reload() on every observer
\* of it.
C19_UnwatchedEntryRearmed ==
    /\ []RearmReloadsAll
    /\ \A f \in Files :
          (UnwatchedEntry(f) /\ exists[f] /\ WorkerUp)
              ~> (Armed(f) \/ ~UnwatchedEntry(f) \/ ~exists[f] \/ ~WorkerUp \/ next_wd > MaxWd)

\* F was deleted and created again and its two observers are unwatched; no
\* event is queued or pending, the worker is back at the re-arm pass after a
\* wait that timed out, and the pass arms the entry with a new watch.
C19_Witness ==
    /\ WorkerUp
    /\ pc = "top"
    /\ UnwatchedEntry("F")
    /\ Len(tasks["F"]) = 2
    /\ exists["F"]
    /\ queue = {}
    /\ ~epoll_ready
    /\ kwatch = EmptyMap
    /\ \E m \in RestartEffects : m.wd["A"] = 2 /\ m.wd["B"] = 2 /\ m.kw = (2 :> "F")

\* The events the kernel can queue.
Events == [wd : 1..MaxWd, mask : {IN_CLOSE_WRITE, IN_IGNORED}]

\* The drain loop has read event e and the dispatch loop has not visited its
\* descriptor yet.
InMasks(e) == e.wd \in DOMAIN event_masks /\ e.mask \in event_masks[e.wd]

\* C20: the worker leaves the drain loop only when a read() has found the
\* queue empty, so whenever it is not in the drain loop and an event is queued
\* the edge for it is still pending and the next epoll_wait returns at once;
\* every queued event is read and reaches the dispatch loop under the
\* descriptor it was queued for, and leaves event_masks only by the dispatch
\* of that descriptor, which comes.
C20_NoEventLost ==
    /\ [](pc # "read" /\ queue # {} => epoll_ready)
    /\ [][ /\ (pc = "read" /\ pc' # "read") => (queue = {} /\ pc' = "dispatch")
            /\ \A e \in Events : (InMasks(e) /\ ~InMasks(e)') => Dispatch(e.wd)
          ]_vars
    /\ \A e \in Events : (e \in queue /\ WorkerUp) ~> (pc = "dispatch" /\ InMasks(e))
    /\ \A e \in Events : InMasks(e) ~> ~InMasks(e)

\* The worker is in the drain loop with the write of one file read and the
\* write of the other file still queued, and no edge pending: only a further
\* read() gets the second event.
C20_Witness ==
    /\ pc = "read"
    /\ ~epoll_ready
    /\ \E e \in queue : e.mask = IN_CLOSE_WRITE /\ e.wd \in DOMAIN kwatch /\ kwatch[e.wd] = "G"
    /\ \E w \in DOMAIN event_masks :
          /\ event_masks[w] = {IN_CLOSE_WRITE}
          /\ w \in DOMAIN kwatch
          /\ kwatch[w] = "F"
          /\ task_wd["A"] = w

\* A thread of the host is inside stop() and waits in join() for the worker.
StopWaits == proc = "alive" /\ stop_pc = "join"

\* C21: a stop() that a thread of the host calls while the worker runs comes
\* to its end. From the call on _running is false, so the worker starts no
\* further iteration: its next test of _running takes it out of work_loop,
\* every wait before that test is bounded, and the lock it holds while it
\* dispatches is given back before the test. stop() holds no lock while it
\* waits, joins the worker once it has left, and returns with the registry and
\* the reverse index empty, whatever other threads register and unregister
\* in the meantime.
C21_StopTerminates ==
    /\ [](stop_pc # "idle" => ~running)
    /\ [](StopWaits => (joinable /\ pc # "none"))
    /\ [][ /\ (StopWaits /\ pc = "top" /\ pc' # "top") => (pc' = "done" /\ mutex' = "free")
           /\ (StopWaits /\ pc = "wait") => ENABLED (\E outcome \in {"ready", "timeout"} : EpollWait(outcome))
           /\ (StopWaits /\ pc' = "done") => pc \in {"top", "done"}
           /\ StopJoinStep => (pc = "done" /\ mutex = "free" /\ ~joinable')
           /\ StopFinishStep => (tasks' = EmptyMap /\ watch_descriptors' = EmptyMap)
          ]_vars
    /\ StopWaits ~> (stop_pc = "unregister" /\ pc = "done" /\ ~joinable)
    /\ (stop_pc # "idle") ~> (stop_pc = "idle" /\ stop_returned /\ tasks = EmptyMap)

\* stop() waits in join() while the worker holds the lock in its dispatch
\* loop, about to reload the two observers of F.
C21_Witness ==
    /\ StopWaits
    /\ ~running
    /\ mutex = "worker"
    /\ "F" \in DOMAIN tasks
    /\ Len(tasks["F"]) = 2
    /\ \E wd \in DOMAIN event_masks : AboutToDispatch(wd, "F")

\* The descriptor an entry of the registry carries: the one of its first
\* observer (as register_task, rewatch_task and restart_stopped_tasks read it).
EntryId(ts, wd, f) == wd[ts[f][1].task]

\* The entries of a registry that hold observers and carry a descriptor.
WatchedEntries(ts, wd) == {f \in DOMAIN ts : ts[f] # <<>> /\ EntryId(ts, wd, f) >= 0}

\* C22: whenever no thread holds _mutex, _watch_descriptors has one key for
\* each entry of _tasks that carries a descriptor, namely that descriptor,
\* mapped to the file of the entry, and no other key: no key -1, no
\* descriptor that no entry carries any more, no key whose file has no entry.
C22_ReverseIndexMatchesRegistry ==
    mutex = "free" =>
        /\ \A f \in WatchedEntries(tasks, task_wd) :
              /\ EntryId(tasks, task_wd, f) \in DOMAIN watch_descriptors
              /\ watch_descriptors[EntryId(tasks, task_wd, f)] = f
        /\ \A w \in DOMAIN watch_descriptors :
              /\ w >= 0
              /\ watch_descriptors[w] \in WatchedEntries(tasks, task_wd)
              /\ EntryId(tasks, task_wd, watch_descriptors[w]) = w

\* The kernel has dropped watch w and its IN_IGNORED has not been dispatched.
InvalidationPending(w) ==
    \/ [wd |-> w, mask |-> IN_IGNORED] \in queue
    \/ w \in DOMAIN event_masks /\ IN_IGNORED \in event_masks[w]

\* C23: whenever no thread holds _mutex, the observers of one entry all carry
\* the same descriptor: -1, or one descriptor that is the live kernel watch of
\* the file of the entry (or was it until the kernel dropped it, with the
\* IN_IGNORED for it still to be dispatched). No step of a caller or of the
\* worker leaves an entry with observers on different descriptors.
C23_ObserversShareEntryId ==
    mutex = "free" =>
        \A f \in DOMAIN tasks :
            tasks[f] # <<>> =>
                LET w == EntryId(tasks, task_wd, f) IN
                /\ AllCarry(tasks[f], w)
                /\ w >= 0 => (w \in WatchesOn(kwatch, f) \/ InvalidationPending(w))

\* F was deleted while it had two observers; the worker has dispatched the
\* IN_IGNORED, the rewatch found no file, and both observers carry -1.
C23_Witness ==
    /\ mutex = "free"
    /\ pc \in {"top", "wait"}
    /\ ~exists["F"]
    /\ "F" \in DOMAIN tasks
    /\ Len(tasks["F"]) = 2
    /\ AllCarry(tasks["F"], -1)
    /\ queue = {}
    /\ event_masks = EmptyMap

\* The descriptors for which the effects tr issue inotify_rm_watch, in order.
Removals(tr) ==
    [i \in 1..Len(SelectSeq(tr, LAMBDA x : x.e = "rm_watch")) |->
        SelectSeq(tr, LAMBDA x : x.e = "rm_watch")[i].wd]

\* No descriptor occurs twice in a sequence of descriptors.
NoRepeat(ws) == \A i, j \in 1..Len(ws) : ws[i] = ws[j] => i = j

\* What a shutdown that begins now does.
ShutdownEffects ==
    IF proc = "alive" /\ mutex = "free" /\ initialized
    THEN {unregister_all_tasks(Cur, order) : order \in Orders(DOMAIN tasks)}
    ELSE {}

\* C24: no call issues inotify_rm_watch twice for one descriptor (neither the
\* shutdown of a file with several observers nor the dispatch of an
\* invalidation to a file with several observers), and whenever no thread
\* holds _mutex every live kernel watch belongs to a file that has an entry
\* with observers in the registry.
C24_WatchReleasedExactlyOnce ==
    /\ \A m \in ShutdownEffects \cup DispatchEffects : NoRepeat(Removals(m.tr))
    /\ mutex = "free" =>
          \A w \in DOMAIN kwatch : kwatch[w] \in DOMAIN tasks /\ tasks[kwatch[w]] # <<>>

\* What the first rewatch_task call of the worker's next step does, when that
\* step dispatches an invalidation.
RewatchEffects ==
    IF proc = "alive" /\ pc = "dispatch"
    THEN UNION {{rewatch_task(Cur, Visited(wd)[1].task, ok) : ok \in BOOLEAN} :
                    wd \in {w \in DOMAIN event_masks :
                               IN_IGNORED \in event_masks[w] /\ Visited(w) # <<>>}}
    ELSE {}

\* In the effects tr every on_reload() comes before the first observer of the
\* same file is given a descriptor >= 0.
ReloadsBeforeRecord(tr) ==
    \A i, j \in 1..Len(tr) :
        (tr[i].e = "set_wd" /\ tr[i].wd >= 0 /\ tr[j].e = "on_reload"
            /\ watch_file(tr[i].t) = watch_file(tr[j].t)) => j < i

\* C25 as stated: in one re-arm pass and in one call of rewatch_task, once
\* the kernel has granted the new watch, on_reload() is invoked on every
\* observer of the entry before set_watch_descriptor gives the new descriptor
\* to any of them.
C25_ReloadAllBeforeRecord ==
    \A m \in RestartEffects \cup RewatchEffects : ReloadsBeforeRecord(m.tr)

\* In the effects tr every observer that is given a descriptor >= 0 was
\* reloaded in the step before, while it still carried another descriptor.
ReloadBeforeOwnRecord(tr) ==
    \A i \in 1..Len(tr) :
        (tr[i].e = "set_wd" /\ tr[i].wd >= 0) =>
            /\ i > 1
            /\ tr[i - 1].e = "on_reload"
            /\ tr[i - 1].t = tr[i].t
            /\ tr[i - 1].wd # tr[i].wd

\* C25 amended: in one re-arm pass and in one call of rewatch_task, once the
\* kernel has granted the new watch, each observer of the entry is reloaded
\* and then given the new descriptor, one observer after the other in the
\* order of the list; an observer never carries the new descriptor while it
\* is reloaded itself, every observer of the entry is reloaded exactly once,
\* and the reverse index gets the new key after all of that.
C25_ReloadEachBeforeOwnRecord ==
    \A m \in RestartEffects \cup RewatchEffects :
        /\ ReloadBeforeOwnRecord(m.tr)
        /\ \A w \in DOMAIN m.rev \ DOMAIN watch_descriptors :
              /\ m.rev[w] \in DOMAIN m.ts
              /\ \A t \in TasksOf(m.ts[m.rev[w]]) : ReloadCount(m.tr, t) = 1 /\ m.wd[t] = w
        /\ \A i \in 1..Len(m.tr) :
              m.tr[i].e = "on_reload" =>
                  /\ i < Len(m.tr)
                  /\ m.tr[i + 1] = Ev("set_wd", m.tr[i].t, m.wd[m.tr[i].t])

\* The worker is about to dispatch the invalidation of the watch of F, which
\* exists again and has two observers: rewatch_task gets watch 2, reloads the
\* first observer, gives it 2, reloads the second and gives it 2.
C25_Witness ==
    /\ pc = "dispatch"
    /\ exists["F"]
    /\ "F" \in DOMAIN tasks
    /\ Len(tasks["F"]) = 2
    /\ AllCarry(tasks["F"], 1)
    /\ \E m \in RewatchEffects :
          /\ Reloads(m.tr) = ListTasks(tasks["F"])
          /\ m.wd[tasks["F"][1].task] = 2
          /\ m.wd[tasks["F"][2].task] = 2
          /\ m.rev = (2 :> "F")

\* The masks of the events of S, merged per descriptor into the masks held.
Merged(masks, S) ==
    [w \in DOMAIN masks \cup {e.wd : e \in S} |->
        (IF w \in DOMAIN masks THEN masks[w] ELSE {}) \cup {e.mask : e \in {x \in S : x.wd = w}}]

\* Every on_reload() of the effects tr is one of rewatch_task: the observer is
\* given the new descriptor right after it.
ReloadsOfRewatchOnly(tr) ==
    \A i \in 1..Len(tr) :
        tr[i].e = "on_reload" =>
            /\ i < Len(tr)
            /\ tr[i + 1].e = "set_wd"
            /\ tr[i + 1].t = tr[i].t
            /\ tr[i + 1].wd >= 0

WatchCreationFailed(tr) == \E i \in 1..Len(tr) : tr[i].e = "add_watch" /\ tr[i].wd < 0

\* What rewatch_task leaves behind when it could not watch the file of the
\* entry again: the descriptor the entry carried is no key of the reverse
\* index, every observer of the entry carries -1, no on_reload() was invoked,
\* and the registry holds the same observers with the same ownerships, alive.
LeftUnwatched(m, f) ==
    /\ EntryId(tasks, task_wd, f) \notin DOMAIN m.rev
    /\ \A i \in 1..Len(tasks[f]) : m.wd[tasks[f][i].task] = -1
    /\ Reloads(m.tr) = <<>>
    /\ m.ts = tasks
    /\ m.dead = destroyed
    /\ \A t \in Tasks : watch_file(t) # f => m.wd[t] = task_wd[t]

\* C27: when the worker dispatches the invalidation of the descriptor that
\* the observers of a file carry, and rewatch_task finds that the file is
\* gone, or the file is there and inotify_add_watch fails, the entry is left
\* unwatched with all its observers: this holds for one call of rewatch_task
\* and for the whole dispatch of the descriptor when every call of it fails;
\* the entry is then one that the re-arm pass tests.
C27_FailedRewatchLeavesEntryUnwatched ==
    \A wd \in DOMAIN event_masks : \A f \in Files :
        (AboutToDispatch(wd, f) /\ IN_IGNORED \in event_masks[wd]
            /\ wd \in DOMAIN watch_descriptors /\ watch_descriptors[wd] = f) =>
            /\ \A ok \in BOOLEAN :
                  LET m == rewatch_task(Cur, tasks[f][1].task, ok) IN
                  (~exists[f] \/ WatchCreationFailed(m.tr)) => LeftUnwatched(m, f)
            /\ \A oks \in [1..Len(tasks[f]) -> BOOLEAN] :
                  LET m == DispatchEvent(Cur, wd, event_masks[wd], oks) IN
                  (~exists[f] \/ (\A i \in 1..Len(m.tr) :
                                      m.tr[i].e = "add_watch" => m.tr[i].wd < 0)) =>
                      /\ LeftUnwatched(m, f)
                      /\ m.ts[f] # <<>>
                      /\ m.wd[m.ts[f][1].task] < 0

\* The worker is about to dispatch the invalidation of the watch of F while F
\* is gone and has two observers, one owned and one not: the rewatch removes
\* key 1 and leaves both at -1.
C27_Witness ==
    /\ pc = "dispatch"
    /\ ~exists["F"]
    /\ 1 \in DOMAIN event_masks
    /\ IN_IGNORED \in event_masks[1]
    /\ watch_descriptors = (1 :> "F")
    /\ "F" \in DOMAIN tasks
    /\ tasks["F"] = <<[task |-> "A", ownership |-> DOESNT_OWN_TASK],
                     [task |-> "B", ownership |-> OWN_TASK]>>
    /\ AllCarry(tasks["F"], 1)
    /\ DispatchEvent(Cur, 1, event_masks[1], AllOk(2)).wd["B"] = -1

\* C28: a successful register_task puts the observer at the end of the list of
\* its file; a successful unregister_task takes the observer out and leaves
\* the others in the order they had; so an observer that is unregistered and
\* registered again stands behind all the others. The dispatch of a
\* write-complete event invokes on_reload() on the observers of the
\* descriptor in the order of that list.
C28_ReloadInRegistrationOrder ==
    /\ CallerCanEnter =>
          \A t \in Observers :
              LET f == watch_file(t)
                  list == IF f \in DOMAIN tasks THEN tasks[f] ELSE <<>>
              IN  /\ \A o \in OwnerShip, ok \in BOOLEAN :
                        LET m == register_task(Cur, t, o, ok) IN
                        m.ret = 0 => m.ts[f] = Append(list, [task |-> t, ownership |-> o])
                  /\ \A g \in TaskReads(t) :
                        LET m == unregister_task(Cur, t, g) IN
                        m.ret = 0 =>
                            /\ f \in DOMAIN m.ts => m.ts[f] = Others(list, t)
                            /\ f \notin DOMAIN m.ts => Others(list, t) = <<>>
                            /\ \A o \in OwnerShip, ok \in BOOLEAN :
                                  LET m2 == register_task(m, t, o, ok) IN
                                  (m.dead[t] = 0 /\ m2.ret = 0) =>
                                      ListTasks(m2.ts[f]) = Append(ListTasks(Others(list, t)), t)
    /\ pc = "dispatch" =>
          \A wd \in DOMAIN event_masks :
              IN_IGNORED \notin event_masks[wd] =>
                  \A oks \in [1..Len(Visited(wd)) -> BOOLEAN] :
                      Reloads(DispatchEvent(Cur, wd, event_masks[wd], oks).tr)
                          = ListTasks(Visited(wd))

\* Three observers are registered on F, the one that was registered first
\* (it got the first watch) stands last; the worker is about to dispatch a
\* write of F and reloads them in the order of the list; unregistering the
\* one in the middle leaves the other two in their order.
C28_Witness ==
    /\ CallerCanEnter
    /\ pc = "dispatch"
    /\ "F" \in DOMAIN tasks
    /\ ListTasks(tasks["F"]) = <<"B", "D", "A">>
    /\ AllCarry(tasks["F"], 1)
    /\ 1 \in DOMAIN event_masks
    /\ event_masks[1] = {IN_CLOSE_WRITE}
    /\ Reloads(DispatchEvent(Cur, 1, event_masks[1], AllOk(3)).tr) = <<"B", "D", "A">>
    /\ ListTasks(unregister_task(Cur, "D", <<-1, -1, -1>>).ts["F"]) = <<"B", "A">>

\* Observer t can be passed to register_task now, is in no list, and its file
\* does not exist.
RegistersOnMissingFile(t) ==
    /\ CallerCanEnter
    /\ initialized
    /\ destroyed[t] = 0
    /\ t \notin Registered(tasks)
    /\ ~exists[watch_file(t)]

NoAccessAfterDelete(tr) ==
    /\ \A i \in 1..Len(tr) : tr[i].e # "read_deleted"
    /\ \A i, j \in 1..Len(tr) :
          (i < j /\ tr[i].e = "delete" /\ tr[j].t = tr[i].t) => tr[j].e = "add_watch"

\* C30: whatever is registered, neither unregister_task(task) nor
\* unregister_task(path) nor the shutdown reads or writes the descriptor of
\* an observer after it has deleted that observer; the descriptor that
\* decides which kernel watch is removed is read from a live observer.
C30_NoAccessAfterDestroy ==
    (CallerCanEnter /\ initialized) =>
        /\ \A t \in Tasks : destroyed[t] = 0 =>
              \A g \in TaskReads(t) : NoAccessAfterDelete(unregister_task(Cur, t, g).tr)
        /\ \A path \in Paths :
              \A g \in FirstReads(path) : NoAccessAfterDelete(unregister_task_file(Cur, path, g).tr)
        /\ \A m \in ShutdownEffects : NoAccessAfterDelete(m.tr)

(* ---------------------------------------------------------------------- *)
(* The split-source implementation (src/include/hot_loader.h with          *)
(* src/src/hot_loader.cpp): one observer per file. _tasks[file] and         *)
(* _ownerships[file] are always written and erased together and are kept   *)
(* here as the one TaskInfo of tasks[file]; _watch_descriptors maps a       *)
(* descriptor to the observer, not to the file. This implementation has no  *)
(* _initialized flag: initialized holds here whether _inotify_fd is in the  *)
(* interest list of _epoll_fd, which register_task adds it to.              *)
(* ---------------------------------------------------------------------- *)

\* The observer registered for a file.
split_task(m, file) == m.ts[file][1].task

\* register_task(task, ownership) of the split implementation. ctl_fails:
\* EPOLL_CTL_ADD fails, as it does (EEXIST) once the inotify descriptor is in
\* the epoll set.
split_register_task(m, task, ownership, ok, ctl_fails) ==
    IF task = NullTask THEN Ret(m, -1)
    ELSE LET file == watch_file(task) IN
         IF file \in DOMAIN m.ts THEN Ret(m, -2)
         ELSE LET m1 == [m EXCEPT !.ts = (file :> <<[task |-> task, ownership |-> ownership]>>) @@ @]
                  m2 == inotify_add_watch(m1, file, ok)
                  wd == m2.ret
              IN  IF wd < 0 THEN Ret(m2, -3)
                  ELSE IF ctl_fails THEN Ret(inotify_rm_watch(m2, wd), -4)
                  ELSE Ret(PutWd(set_watch_descriptor(m2, task, wd), wd, task), 0)

\* unregister_task(const std::string& file) of the split implementation, from
\* the lock on (the caller has normalized the path).
split_unregister_locked(m, file) ==
    IF file \notin DOMAIN m.ts THEN Ret(m, -2)
    ELSE LET task == split_task(m, file)
             own == m.ts[file][1].ownership
             m1 == [m EXCEPT !.ts = Restrict(@, DOMAIN @ \ {file})]
             m2 == IF m1.wd[task] >= 0
                   THEN EraseWd(inotify_rm_watch(m1, m1.wd[task]), m1.wd[task])
                   ELSE m1
             m3 == set_watch_descriptor(m2, task, -1)
         IN  Ret(IF own = OWN_TASK THEN delete_task(m3, task) ELSE m3, 0)

\* unregister_task(const std::string& file) of the split implementation
split_unregister_task_file(m, path) ==
    IF normalize_path(path) = "" THEN Ret(m, -1)
    ELSE split_unregister_locked(m, normalize_path(path))

\* unregister_task(HotLoadTask* task) of the split implementation
split_unregister_task(m, task) ==
    IF task = NullTask THEN Ret(m, -1)
    ELSE split_unregister_task_file(m, watch_file(task))

\* rewatch_task(task) of the split implementation
split_rewatch_task(m, task, ok) ==
    LET file == watch_file(task)
        m1 == IF m.wd[task] >= 0 THEN inotify_rm_watch(m, m.wd[task]) ELSE m
    IN  IF ~exists[file] THEN set_watch_descriptor(m1, task, -1)
        ELSE LET m2 == inotify_add_watch(m1, file, ok)
                 wd == m2.ret
             IN  IF wd >= 0
                 THEN PutWd(set_watch_descriptor(on_reload(m2, task), task, wd), wd, task)
                 ELSE set_watch_descriptor(m2, task, -1)

\* restart_stopped_tasks() of the split implementation, from the k-th file of
\* the enumeration on.
RECURSIVE split_restart_stopped_tasks(_, _, _, _)
split_restart_stopped_tasks(m, order, oks, k) ==
    IF k > Len(order) THEN m
    ELSE LET file == order[k]
             task == split_task(m, file)
         IN  IF m.wd[task] < 0 /\ exists[file]
             THEN LET m2 == inotify_add_watch(m, file, oks[file])
                      wd == m2.ret
                  IN  split_restart_stopped_tasks(
                          IF wd >= 0
                          THEN PutWd(set_watch_descriptor(on_reload(m2, task), task, wd), wd, task)
                          ELSE m2,
                          order, oks, k + 1)
             ELSE split_restart_stopped_tasks(m, order, oks, k + 1)

\* One iteration of the dispatch loop of the split implementation, for a
\* descriptor whose observer is alive.
split_dispatch_event(m, wd, mask, ok) ==
    IF wd \notin DOMAIN m.rev THEN m
    ELSE IF IN_IGNORED \in mask THEN split_rewatch_task(m, m.rev[wd], ok)
    ELSE on_reload(m, m.rev[wd])

\* std::lock_guard on a std::mutex the calling thread already owns is
\* undefined: the thread blocks on itself for ever, or lock() throws
\* std::system_error (resource_deadlock_would_occur), or, where locking does
\* nothing (a program not linked with the thread library), it goes on.
RelockOutcomes == {"deadlock", "throws", "proceeds"}

\* ++it of the range-for over _tasks after the callee erased the element it
\* stands on is undefined: the loop goes on with the other elements, ends, or
\* the process dies on the freed node.
IterOutcomes == {"continues", "ends", "crashes"}

\* for (auto& [_, task] : _tasks) unregister_task(task); in stop(), which
\* holds _mutex: from the k-th element of the enumeration on. unregister_task
\* returns -1 before it locks when the file of the observer does not exist any
\* more, and locks _mutex again otherwise.
RECURSIVE split_stop_loop(_, _, _, _, _)
split_stop_loop(m, order, k, relock, iter) ==
    IF k > Len(order) THEN [m |-> m, out |-> "finished"]
    ELSE IF normalize_path(order[k]) = ""
    THEN split_stop_loop(m, order, k + 1, relock, iter)
    ELSE IF relock = "deadlock" THEN [m |-> m, out |-> "blocked"]
    ELSE IF relock = "throws" THEN [m |-> m, out |-> "threw"]
    ELSE LET m1 == split_unregister_locked(m, order[k]) IN
         IF iter = "continues" THEN split_stop_loop(m1, order, k + 1, relock, iter)
         ELSE IF iter = "ends" THEN [m |-> m1, out |-> "finished"]
         ELSE [m |-> m1, out |-> "crashed"]

SplitInitOutcomes == {"ok", "inotify_init1 fails", "epoll_create1 fails"}

\* init() of the split implementation: a new inotify instance (no watch, no
\* event, descriptors from 1 on) and a new, empty epoll set. When
\* epoll_create1 fails, _inotify_fd is closed but keeps its number ("stale").
SplitInit(outcome) ==
    /\ proc = "alive"
    /\ stop_pc = "idle"
    /\ inotify_fd' = IF outcome = "ok" THEN "open"
                     ELSE IF outcome = "epoll_create1 fails" THEN "stale" ELSE "closed"
    /\ epoll_fd' = IF outcome = "inotify_init1 fails" THEN epoll_fd
                   ELSE IF outcome = "ok" THEN "open" ELSE "closed"
    /\ initialized' = FALSE
    /\ kwatch' = EmptyMap
    /\ next_wd' = 1
    /\ queue' = {}
    /\ epoll_ready' = FALSE
    /\ stop_returned' = FALSE
    /\ UNCHANGED <<running, joinable, run_pc, registry, worker, stop_pc, exists, proc,
                   unregistered, stop_again, last_init>>

\* run() of the split implementation: no test at all; assigning to a joinable
\* std::thread terminates the process.
SplitRun ==
    /\ proc = "alive"
    /\ stop_pc = "idle"
    /\ running' = TRUE
    /\ IF joinable
       THEN proc' = "aborted" /\ UNCHANGED <<joinable, pc>>
       ELSE joinable' = TRUE /\ pc' = "top" /\ UNCHANGED proc
    /\ stop_returned' = FALSE
    /\ UNCHANGED <<initialized, inotify_fd, epoll_fd, run_pc, registry, kernel,
                   event_masks, mutex, stop_pc, exists, unregistered, stop_again, last_init>>

SplitRegisterTask(task, ownership) ==
    /\ proc = "alive"
    /\ lock_guard
    /\ Alive(task)
    /\ \E ok \in BOOLEAN :
          LET m == split_register_task(Cur, task, ownership, ok /\ inotify_fd = "open",
                                       initialized \/ epoll_fd # "open")
          IN  /\ Commit(m)
              /\ initialized' = (initialized \/ m.ret = 0)
    /\ UNCHANGED <<running, inotify_fd, epoll_fd, joinable, run_pc, worker, stop_pc,
                   exists, proc, history>>

\* unregister_task(task): it takes _mutex only after the path of the observer
\* has been normalized.
SplitUnregisterTask(task) ==
    /\ proc = "alive"
    /\ Alive(task)
    /\ (task # NullTask /\ normalize_path(watch_file(task)) # "") => lock_guard
    /\ Commit(split_unregister_task(Cur, task))
    /\ UNCHANGED <<lifecycle, worker, stop_pc, exists, proc, history>>

\* while (_running.load()) { restart_stopped_tasks(); ...
SplitWorkLoopTop ==
    /\ proc = "alive"
    /\ pc = "top"
    /\ IF running
       THEN /\ lock_guard
            /\ \E order \in Orders(DOMAIN tasks), oks \in [Files -> BOOLEAN] :
                  Commit(split_restart_stopped_tasks(
                             Cur, order, [f \in Files |-> oks[f] /\ inotify_fd = "open"], 1))
            /\ pc' = "wait"
       ELSE /\ pc' = "done"
            /\ UNCHANGED <<registry, kernel>>
    /\ UNCHANGED <<lifecycle, event_masks, mutex, stop_pc, exists, proc, history>>

\* epoll_wait(...) of the split implementation: EINTR starts the next
\* iteration, any other error leaves the loop and ends the thread.
SplitEpollWait(outcome) ==
    /\ proc = "alive"
    /\ pc = "wait"
    /\ outcome = "ready" => (epoll_fd = "open" /\ initialized /\ epoll_ready)
    /\ outcome = "timeout" => (epoll_fd = "open" /\ ~(initialized /\ epoll_ready))
    /\ outcome = "EINTR" => epoll_fd = "open"
    /\ IF outcome = "ready"
       THEN /\ pc' = "read"
            /\ epoll_ready' = FALSE
            /\ event_masks' = EmptyMap
       ELSE /\ pc' = IF outcome = "error" THEN "done" ELSE "top"
            /\ UNCHANGED <<epoll_ready, event_masks>>
    /\ UNCHANGED <<lifecycle, registry, kwatch, next_wd, queue, mutex, stop_pc, exists,
                   proc, history>>

\* read(_inotify_fd, ...) in the drain loop of the split implementation:
\* EAGAIN and EINTR leave the drain loop, any other error ends the thread.
SplitReadEvents(outcome) ==
    /\ proc = "alive"
    /\ pc = "read"
    /\ outcome = "events" => queue # {}
    /\ outcome = "EAGAIN" => queue = {}
    /\ IF outcome = "events"
       THEN /\ event_masks' = Aggregate(event_masks, queue)
            /\ queue' = {}
            /\ UNCHANGED pc
       ELSE /\ pc' = IF outcome = "error" THEN "done" ELSE "dispatch"
            /\ UNCHANGED <<queue, event_masks>>
    /\ UNCHANGED <<lifecycle, registry, kwatch, next_wd, epoll_ready, mutex, stop_pc,
                   exists, proc, history>>

\* The dispatch loop finds in _watch_descriptors an observer that was deleted:
\* rewatch_task removes the old descriptor of an observer and leaves its key
\* in _watch_descriptors, unregister_task erases only the current one.
StalePointer(wd) ==
    IF wd \in DOMAIN watch_descriptors THEN destroyed[watch_descriptors[wd]] > 0 ELSE FALSE

\* std::lock_guard lock(_mutex) and one iteration of the dispatch loop of the
\* split implementation; the lock is released after the last iteration. A
\* call through a pointer to a deleted observer is undefined: it has no
\* effect on the registry, or the process dies.
SplitDispatch(wd) ==
    /\ proc = "alive"
    /\ pc = "dispatch"
    /\ mutex \in {"free", "worker"}
    /\ wd \in DOMAIN event_masks
    /\ IF StalePointer(wd)
       THEN /\ \E crash \in BOOLEAN : proc' = IF crash THEN "aborted" ELSE proc
            /\ UNCHANGED <<registry, kernel>>
       ELSE /\ \E ok \in BOOLEAN :
                  Commit(split_dispatch_event(Cur, wd, event_masks[wd],
                                              ok /\ inotify_fd = "open"))
            /\ UNCHANGED proc
    /\ event_masks' = Restrict(event_masks, DOMAIN event_masks \ {wd})
    /\ mutex' = IF DOMAIN event_masks = {wd} THEN "free" ELSE "worker"
    /\ pc' = IF DOMAIN event_masks = {wd} THEN "top" ELSE "dispatch"
    /\ UNCHANGED <<lifecycle, stop_pc, exists, history>>

\* The dispatch loop when the drain read no event at all.
SplitDispatchNothing ==
    /\ proc = "alive"
    /\ pc = "dispatch"
    /\ mutex = "free"
    /\ event_masks = EmptyMap
    /\ pc' = "top"
    /\ UNCHANGED <<lifecycle, registry, kernel, event_masks, mutex, stop_pc, exists, proc,
                   history>>

SplitWorkerStep ==
    \/ SplitWorkLoopTop
    \/ \E outcome \in WaitOutcomes : SplitEpollWait(outcome)
    \/ \E outcome \in ReadOutcomes : SplitReadEvents(outcome)
    \/ \E wd \in DOMAIN event_masks : SplitDispatch(wd)
    \/ SplitDispatchNothing

\* stop() of the split implementation, called by a thread of the host:
\* _running.store(false) and the joinable() test.
SplitStopBegin ==
    /\ proc = "alive"
    /\ stop_pc = "idle"
    /\ running' = FALSE
    /\ stop_pc' = IF joinable THEN "join" ELSE "unregister"
    /\ stop_returned' = FALSE
    /\ UNCHANGED <<initialized, inotify_fd, epoll_fd, joinable, run_pc, registry, kernel,
                   worker, exists, proc, unregistered, stop_again, last_init>>

\* stop(): _worker_thread.join() returns once the worker has left work_loop.
SplitStopJoin ==
    /\ proc = "alive"
    /\ stop_pc = "join"
    /\ pc = "done"
    /\ joinable' = FALSE
    /\ stop_pc' = "unregister"
    /\ UNCHANGED <<initialized, running, inotify_fd, epoll_fd, run_pc, registry, kernel,
                   worker, exists, proc, history>>

\* Closing the inotify descriptor ends the inotify instance: its watches and
\* its queued events are gone.
closed_instance(m) == [m EXCEPT !.kw = EmptyMap, !.q = {}, !.rdy = FALSE]

\* stop(): the lock_guard on _mutex, the loop over _tasks and the two close()
\* calls. The thread leaves stop() by the return ("finished") or by the
\* exception of the second lock ("threw", which unlocks _mutex on the way
\* out), stays in it for ever ("blocked", _mutex held), or the process dies.
SplitStopCleanup ==
    /\ proc = "alive"
    /\ stop_pc = "unregister"
    /\ lock_guard
    /\ \E order \in Orders(DOMAIN tasks), relock \in RelockOutcomes, iter \in IterOutcomes :
          LET r == split_stop_loop(Cur, order, 1, relock, iter) IN
          /\ Commit(IF r.out = "finished" THEN closed_instance(r.m) ELSE r.m)
          /\ inotify_fd' = IF r.out = "finished" THEN "closed" ELSE inotify_fd
          /\ epoll_fd' = IF r.out = "finished" THEN "closed" ELSE epoll_fd
          /\ initialized' = IF r.out = "finished" THEN FALSE ELSE initialized
          /\ stop_pc' = IF r.out = "blocked" THEN "blocked"
                        ELSE IF r.out = "crashed" THEN stop_pc ELSE "idle"
          /\ mutex' = IF r.out = "blocked" THEN "stop" ELSE mutex
          /\ proc' = IF r.out = "crashed" THEN "aborted" ELSE proc
          /\ stop_returned' = (r.out = "finished")
    /\ UNCHANGED <<running, joinable, run_pc, pc, event_masks, exists, unregistered,
                   stop_again, last_init>>

\* A host that initializes the instance once, registers an observer of its
\* own on F and one the registry owns on G, may unregister the latter, starts
\* the worker once, and calls stop() at any time with whatever is registered
\* then, while F is written, deleted and created again.
NextSplit ==
    \/ inotify_fd = "closed" /\ ~stop_returned /\ \E outcome \in SplitInitOutcomes : SplitInit(outcome)
    \/ inotify_fd = "open" /\ pc = "none" /\ SplitRun
    \/ SplitRegisterTask("A", DOESNT_OWN_TASK)
    \/ SplitRegisterTask("C", OWN_TASK)
    \/ SplitUnregisterTask("C")
    \/ SplitStopBegin
    \/ SplitStopJoin
    \/ SplitStopCleanup
    \/ SplitWorkerStep
    \/ Watched("F") /\ FileWrite("F")
    \/ \E f \in Replaced : FileDelete(f)
    \/ \E f \in Replaced : FileCreate(f)

\* The scheduler runs the worker and the thread inside stop(); the drain loop
\* of the worker finds the queue empty again and again.
SpecSplit ==
    /\ Init
    /\ [][NextSplit]_vars
    /\ WF_vars(SplitWorkerStep)
    /\ SF_vars(SplitReadEvents("EAGAIN"))
    /\ WF_vars(SplitStopJoin)
    /\ WF_vars(SplitStopCleanup)

\* The thread inside stop() acts on the registry: it leaves stop(), blocks for
\* ever, or the process dies.
SplitCleanupStep == stop_pc = "unregister" /\ (stop_pc' # "unregister" \/ proc' # "alive")

\* The observers the registry owns.
OwnedBy(ts) == {t \in Registered(ts) : \E f \in DOMAIN ts : ts[f][1] = [task |-> t, ownership |-> OWN_TASK]}

\* C31: in the split implementation a stop() that a thread of the host calls
\* comes to its end and succeeds whatever is registered: it has joined the
\* worker before it touches the registry, its loop over the registry locks
\* nothing a second time, so the thread returns from stop() and neither
\* blocks nor leaves by an exception nor takes the process down; on return
\* the registry and the reverse index are empty, every observer the registry
\* owned has been deleted exactly once and no other observer has, and both
\* descriptors are closed.
C31_SplitStopSucceeds ==
    /\ [][SplitCleanupStep =>
             /\ ~joinable
             /\ proc' = "alive"
             /\ stop_pc' = "idle"
             /\ mutex' = "free"
             /\ stop_returned'
             /\ tasks' = EmptyMap
             /\ watch_descriptors' = EmptyMap
             /\ \A t \in Observers :
                   destroyed'[t] = IF t \in OwnedBy(tasks) THEN destroyed[t] + 1 ELSE destroyed[t]
             /\ inotify_fd' = "closed"
             /\ epoll_fd' = "closed"
         ]_vars
    /\ (stop_pc # "idle") ~> (stop_pc = "idle" /\ stop_returned)

====
